---------------------------- MODULE Spec2Model ----------------------------
(***************************************************************************)
(* A model of the path tracer: vec3 / ray / interval arithmetic, sphere    *)
(* and hittable_list intersection, the materials' scatter functions, the   *)
(* recursive integrator camera::trace_ray, camera::render and the driver.  *)
(*                                                                         *)
(* A double is modelled as an exact rational <<n, d>> in lowest terms with *)
(* d > 0; +infinity is <<1, 0>> and -infinity is <<-1, 0>>.  std::sqrt is   *)
(* exact where the root is rational and otherwise rounded down to a        *)
(* multiple of 1/SqrtDen.                                                  *)
(*                                                                         *)
(* C++ passes these arguments by value: an operator that uses a parameter  *)
(* more than once binds it first, Only({ e : x \in {x_} }), so that the    *)
(* argument is evaluated once.                                             *)
(***************************************************************************)
EXTENDS Integers, Sequences, FiniteSets, TLC

\* The one element of a singleton set.  Only({ e(x) : x \in {v} }) is e(v)
\* with v computed once, as a local variable of the code is.
Only(S) == CHOOSE x \in S : TRUE

(***************************************************************************)
(* double                                                                  *)
(***************************************************************************)
Abs(n_) ==
    Only({ (IF n < 0 THEN -n ELSE n)
         : n \in {n_} })

Sign(n_) ==
    Only({ (IF n < 0 THEN -1 ELSE IF n > 0 THEN 1 ELSE 0)
         : n \in {n_} })

RECURSIVE GCD(_, _)
GCD(a_, b_) ==
    Only({ (IF b = 0 THEN a ELSE GCD(b, a % b))
         : a \in {a_}, b \in {b_} })

\* n/d in lowest terms; a zero denominator gives the infinity of n's sign.
Q(n_, d_) ==
    Only({ (IF d = 0 THEN <<Sign(n), 0>>
            ELSE LET g == GCD(Abs(n), Abs(d))
                     s == Sign(d)
                 IN  <<(s * n) \div g, (s * d) \div g>>)
         : n \in {n_}, d \in {d_} })

R(n) == <<n, 1>>

Zero == R(0)
One  == R(1)
Two  == R(2)
Half == Q(1, 2)

infinity == <<1, 0>>

\* 0/0: the result of 0 * infinity, infinity - infinity and 0 / 0
NaN == <<0, 0>>

IsFinite(x) == x[2] # 0

IsNaN(x) == x = NaN

RAdd(x_, y_) ==
    Only({ (IF x[2] = 0 /\ y[2] = 0
            THEN (IF x = y THEN x ELSE NaN)
            ELSE IF x[2] = 0 \/ y[2] = 0
            THEN Q(x[1] * y[2] + y[1] * x[2], 0)
            ELSE LET g == GCD(x[2], y[2])
                 IN  Q(x[1] * (y[2] \div g) + y[1] * (x[2] \div g),
                       (x[2] \div g) * y[2]))
         : x \in {x_}, y \in {y_} })
RNeg(x_) ==
    Only({ (<<-x[1], x[2]>>)
         : x \in {x_} })
RSub(x, y) == RAdd(x, RNeg(y))
RMul(x_, y_) ==
    Only({ (Q(x[1] * y[1], x[2] * y[2]))
         : x \in {x_}, y \in {y_} })
RDiv(x_, y_) ==
    Only({ (Q(x[1] * y[2], x[2] * y[1]))
         : x \in {x_}, y \in {y_} })
\* every comparison with a NaN is false
RLt(x_, y_) ==
    Only({ (~IsNaN(x) /\ ~IsNaN(y) /\ x[1] * y[2] < y[1] * x[2])
         : x \in {x_}, y \in {y_} })
RLe(x_, y_) ==
    Only({ (~IsNaN(x) /\ ~IsNaN(y) /\ x[1] * y[2] <= y[1] * x[2])
         : x \in {x_}, y \in {y_} })
RGt(x, y) == RLt(y, x)
RGe(x, y) == RLe(y, x)
RAbs(x_) ==
    Only({ (<<Abs(x[1]), x[2]>>)
         : x \in {x_} })
RMin(x_, y_) ==
    Only({ (IF RLt(y, x) THEN y ELSE x)
         : x \in {x_}, y \in {y_} })
RMax(x_, y_) ==
    Only({ (IF RLt(x, y) THEN y ELSE x)
         : x \in {x_}, y \in {y_} })

\* the largest integer whose square is at most n (Newton's iteration)
RECURSIVE NewtonSqrt(_, _)
NewtonSqrt(n_, x_) ==
    Only({ (LET y == (x + n \div x) \div 2
            IN  IF y >= x THEN x ELSE NewtonSqrt(n, y))
         : n \in {n_}, x \in {x_} })

ISqrt(n_) ==
    Only({ (IF n <= 0 THEN 0 ELSE NewtonSqrt(n, n))
         : n \in {n_} })

IsSquare(n_) ==
    Only({ (n >= 0 /\ ISqrt(n) * ISqrt(n) = n)
         : n \in {n_} })

\* precision of an inexact square root
SqrtDen == 16

\* std::sqrt: NaN below zero, the identity on +infinity and NaN
Sqrt(x_) ==
    Only({ (IF x[2] = 0 THEN (IF x = infinity THEN x ELSE NaN)
            ELSE IF x[1] < 0 THEN NaN
            ELSE IF IsSquare(x[1]) /\ IsSquare(x[2])
            THEN <<ISqrt(x[1]), ISqrt(x[2])>>
            ELSE Q(ISqrt((x[1] * SqrtDen * SqrtDen) \div x[2]), SqrtDen))
         : x \in {x_} })

(***************************************************************************)
(* vec3, point3, color: a triple of doubles                                *)
(***************************************************************************)
V(x, y, z) == <<R(x), R(y), R(z)>>

VZero == V(0, 0, 0)

VNeg(v_) ==
    Only({ (<<RNeg(v[1]), RNeg(v[2]), RNeg(v[3])>>)
         : v \in {v_} })
VAdd(u_, v_) ==
    Only({ (<<RAdd(u[1], v[1]), RAdd(u[2], v[2]), RAdd(u[3], v[3])>>)
         : u \in {u_}, v \in {v_} })
VSub(u_, v_) ==
    Only({ (<<RSub(u[1], v[1]), RSub(u[2], v[2]), RSub(u[3], v[3])>>)
         : u \in {u_}, v \in {v_} })
\* operator*(vec3, vec3): component-wise
VMul(u_, v_) ==
    Only({ (<<RMul(u[1], v[1]), RMul(u[2], v[2]), RMul(u[3], v[3])>>)
         : u \in {u_}, v \in {v_} })
\* operator*(double, vec3)
VScale(t_, v_) ==
    Only({ (<<RMul(t, v[1]), RMul(t, v[2]), RMul(t, v[3])>>)
         : t \in {t_}, v \in {v_} })
\* operator/(vec3, double): (1/t) * v
VDiv(v, t) == VScale(RDiv(One, t), v)

dot(u_, v_) ==
    Only({ (RAdd(RAdd(RMul(u[1], v[1]), RMul(u[2], v[2])), RMul(u[3], v[3])))
         : u \in {u_}, v \in {v_} })

cross(u_, v_) ==
    Only({ (<<RSub(RMul(u[2], v[3]), RMul(u[3], v[2])),
              RSub(RMul(u[3], v[1]), RMul(u[1], v[3])),
              RSub(RMul(u[1], v[2]), RMul(u[2], v[1]))>>)
         : u \in {u_}, v \in {v_} })

length_squared(v_) ==
    Only({ (dot(v, v))
         : v \in {v_} })

length(v) == Sqrt(length_squared(v))

unit_vector(v_) ==
    Only({ (VDiv(v, length(v)))
         : v \in {v_} })

\* fabs(x) < 1e-8, that is Abs(n) * 10^8 < d, computed without the product
BelowNearZero(x_) ==
    Only({ (/\ x[2] # 0
            /\ (x[1] = 0 \/ 100000000 <= (x[2] - 1) \div Abs(x[1])))
         : x \in {x_} })

near_zero(v_) ==
    Only({ (BelowNearZero(v[1]) /\ BelowNearZero(v[2]) /\ BelowNearZero(v[3]))
         : v \in {v_} })

reflect(v_, n_) ==
    Only({ (VSub(v, VScale(RMul(Two, dot(v, n)), n)))
         : v \in {v_}, n \in {n_} })

refract(uv_, n_, etai_over_etat) ==
    Only({ (LET cos_theta == RMin(dot(VNeg(uv), n), One)
                r_out_perp == VScale(etai_over_etat, VAdd(uv, VScale(cos_theta, n)))
                r_out_parallel ==
                    VScale(RNeg(Sqrt(RAbs(RSub(One, length_squared(r_out_perp))))), n)
            IN  VAdd(r_out_perp, r_out_parallel))
         : uv \in {uv_}, n \in {n_} })

(***************************************************************************)
(* Random numbers.  random_double() returns a double in [0, 1); the model  *)
(* draws it from RandomDoubles.                                            *)
(***************************************************************************)
RandomDoubles == {Zero, Half, Q(9, 10)}

\* random_double(min, max)
random_double(min, max) ==
    { RAdd(min, RMul(RSub(max, min), x)) : x \in RandomDoubles }

\* vec3::random(min, max)
vec3_random(min, max) ==
    { <<x, y, z>> : x \in random_double(min, max),
                    y \in random_double(min, max),
                    z \in random_double(min, max) }

\* the values random_unit_vector() can return: the samples its loop accepts,
\* normalised (every sample of the model above 0 is above 1e-160)
random_unit_vector ==
    { VDiv(p, Sqrt(length_squared(p))) :
      p \in { q \in vec3_random(R(-1), One) :
               RLt(Zero, length_squared(q)) /\ RLe(length_squared(q), One) } }

\* the values random_in_unit_disk() can return
random_in_unit_disk ==
    { p \in { <<x, y, Zero>> : x \in random_double(R(-1), One),
                               y \in random_double(R(-1), One) } :
      RLt(length_squared(p), One) }

(***************************************************************************)
(* ray                                                                     *)
(***************************************************************************)
Ray(origin, direction) == [orig |-> origin, dir |-> direction]

at(r_, t) ==
    Only({ (VAdd(r.orig, VScale(t, r.dir)))
         : r \in {r_} })

(***************************************************************************)
(* interval                                                                *)
(***************************************************************************)
Interval(lo, hi) == [min |-> lo, max |-> hi]

contains(iv_, x_) ==
    Only({ (RLe(iv.min, x) /\ RLe(x, iv.max))
         : iv \in {iv_}, x \in {x_} })

\* surrounds with the bounds included
surrounds_Inclusive(iv_, x_) ==
    Only({ (RLe(iv.min, x) /\ RLe(x, iv.max))
         : iv \in {iv_}, x \in {x_} })

surrounds(iv_, x_) ==
    Only({ (RLt(iv.min, x) /\ RLt(x, iv.max))
         : iv \in {iv_}, x \in {x_} })

clamp(iv_, x_) ==
    Only({ (IF RLt(x, iv.min) THEN iv.min
            ELSE IF RGt(x, iv.max) THEN iv.max
            ELSE x)
         : iv \in {iv_}, x \in {x_} })

(***************************************************************************)
(* material: the base class and its three subclasses, as tagged records    *)
(***************************************************************************)
NullMaterial == [kind |-> "null", albedo |-> VZero, fuzz |-> Zero,
                 refraction_index |-> Zero]

BaseMaterial == [kind |-> "material", albedo |-> VZero, fuzz |-> Zero,
                 refraction_index |-> Zero]

Lambertian(albedo) == [kind |-> "lambertian", albedo |-> albedo, fuzz |-> Zero,
                       refraction_index |-> Zero]

Metal(albedo, fuzz) ==
    [kind |-> "metal", albedo |-> albedo,
     fuzz |-> IF RLt(fuzz, One) THEN fuzz ELSE One,
     refraction_index |-> Zero]

Dielectric(refraction_index) ==
    [kind |-> "dielectric", albedo |-> VZero, fuzz |-> Zero,
     refraction_index |-> refraction_index]

\* the out-parameters of scatter as trace_ray declares them:
\* "ray scattered; color attenuation;"
NoScatter == [scatter |-> FALSE, attenuation |-> VZero,
              scattered |-> Ray(VZero, VZero)]

\* material::scatter
material_scatter(r_in, rec) == NoScatter

\* lambertian::scatter without the fallback to the normal
lambertian_scatter_NoFallback(mat, r_in, rec, unit) ==
    [scatter |-> TRUE, attenuation |-> mat.albedo,
     scattered |-> Ray(rec.p, VAdd(rec.normal, unit))]

\* lambertian::scatter; unit is the value of random_unit_vector()
lambertian_scatter(mat, r_in, rec, unit) ==
    Only({ [scatter |-> TRUE, attenuation |-> mat.albedo,
            scattered |-> Ray(rec.p, IF near_zero(scatter_direction)
                                     THEN rec.normal
                                     ELSE scatter_direction)] :
           scatter_direction \in { VAdd(rec.normal, unit) } })

\* metal::scatter adding the random vector without scaling it by fuzz
metal_scatter_Unscaled(mat, r_in, rec, unit) ==
    Only({ [scatter |-> RGt(dot(reflected, rec.normal), Zero),
            attenuation |-> mat.albedo,
            scattered |-> Ray(rec.p, reflected)] :
           reflected \in { VAdd(unit_vector(reflect(r_in.dir, rec.normal)), unit) } })

\* metal::scatter; unit is the value of random_unit_vector()
metal_scatter(mat, r_in, rec, unit) ==
    Only({ [scatter |-> RGt(dot(reflected, rec.normal), Zero),
            attenuation |-> mat.albedo,
            scattered |-> Ray(rec.p, reflected)] :
           reflected \in { VAdd(unit_vector(reflect(r_in.dir, rec.normal)),
                                VScale(mat.fuzz, unit)) } })

\* dielectric::reflectance; (1 - cosine)^5 for std::pow((1 - cosine), 5)
reflectance(cosine, refraction_index) ==
    Only({ RAdd(r0, RMul(RSub(One, r0), RMul(RMul(RMul(k, k), RMul(k, k)), k))) :
           r0 \in { RMul(RDiv(RSub(One, refraction_index),
                               RAdd(One, refraction_index)),
                          RDiv(RSub(One, refraction_index),
                               RAdd(One, refraction_index))) },
           k \in { RSub(One, cosine) } })

\* dielectric::scatter without the test for total internal reflection
dielectric_scatter_NoTotalReflection(mat, r_in, rec, x) ==
    Only({ [scatter |-> TRUE, attenuation |-> V(1, 1, 1),
            scattered |->
              Ray(rec.p,
                  IF RGt(reflectance(cos_theta, ri), x)
                  THEN reflect(unit_direction, rec.normal)
                  ELSE refract(unit_direction, rec.normal, ri))] :
           ri \in { IF rec.front_face THEN RDiv(One, mat.refraction_index)
                                      ELSE mat.refraction_index },
           unit_direction \in { unit_vector(r_in.dir) },
           cos_theta \in { RMin(dot(VNeg(unit_vector(r_in.dir)), rec.normal),
                                One) } })

\* dielectric::scatter; x is the value of random_double(), drawn only when
\* the ray can refract
dielectric_scatter(mat, r_in, rec, x) ==
    Only({ [scatter |-> TRUE, attenuation |-> V(1, 1, 1),
            scattered |->
              Ray(rec.p,
                  IF \/ RGt(RMul(ri, Sqrt(RSub(One, RMul(cos_theta, cos_theta)))),
                            One)
                     \/ RGt(reflectance(cos_theta, ri), x)
                  THEN reflect(unit_direction, rec.normal)
                  ELSE refract(unit_direction, rec.normal, ri))] :
           ri \in { IF rec.front_face THEN RDiv(One, mat.refraction_index)
                                      ELSE mat.refraction_index },
           unit_direction \in { unit_vector(r_in.dir) },
           cos_theta \in { RMin(dot(VNeg(unit_vector(r_in.dir)), rec.normal),
                                One) } })

\* the virtual call rec.mat->scatter(r_in, rec, attenuation, scattered)
scatter(mat, r_in, rec, unit, x) ==
    CASE mat.kind = "lambertian" -> lambertian_scatter(mat, r_in, rec, unit)
      [] mat.kind = "metal" -> metal_scatter(mat, r_in, rec, unit)
      [] mat.kind = "dielectric" -> dielectric_scatter(mat, r_in, rec, x)
      [] OTHER -> material_scatter(r_in, rec)

\* "bool cannot_refract = ri * sin_theta > 1.0" of dielectric::scatter
cannot_refract(mat, r_in, rec) ==
    Only({ RGt(RMul(ri, Sqrt(RSub(One, RMul(cos_theta, cos_theta)))), One) :
           ri \in { IF rec.front_face THEN RDiv(One, mat.refraction_index)
                                      ELSE mat.refraction_index },
           cos_theta \in { RMin(dot(VNeg(unit_vector(r_in.dir)), rec.normal),
                                One) } })

\* the random values one scatter call consumes: lambertian and metal call
\* random_unit_vector(), dielectric calls random_double() unless the ray
\* cannot refract, the base material draws nothing
ScatterDraws(mat, r_in, rec, unit, x) ==
    CASE mat.kind \in {"lambertian", "metal"} -> <<[fn |-> "random_unit_vector", v |-> unit]>>
      [] mat.kind = "dielectric" ->
            IF cannot_refract(mat, r_in, rec) THEN <<>>
            ELSE <<[fn |-> "random_double", v |-> x]>>
      [] OTHER -> <<>>

(***************************************************************************)
(* hit_record                                                              *)
(***************************************************************************)
\* hit_record rec = {}
EmptyRecord == [p |-> VZero, normal |-> VZero, mat |-> NullMaterial,
                t |-> Zero, front_face |-> FALSE]

set_face_normal(rec, r, outward_normal_) ==
    Only({ (LET front_face == RLt(dot(r.dir, outward_normal), Zero)
            IN  [rec EXCEPT !.front_face = front_face,
                            !.normal = IF front_face THEN outward_normal
                                       ELSE VNeg(outward_normal)])
         : outward_normal \in {outward_normal_} })

(***************************************************************************)
(* sphere                                                                  *)
(***************************************************************************)
Sphere(center, radius, mat) ==
    [center |-> center, radius |-> RMax(Zero, radius), mat |-> mat]

\* sphere::hit up to the discriminant: oc, a, h, c and the discriminant
SphereQuadratic(s, r) ==
    Only({ Only({ [a |-> a, h |-> h, c |-> c,
                   discriminant |-> RSub(RMul(h, h), RMul(a, c))] :
                  a \in { length_squared(r.dir) },
                  h \in { dot(r.dir, oc) },
                  c \in { RSub(length_squared(oc), RMul(s.radius, s.radius)) } }) :
           oc \in { VSub(s.center, r.orig) } })

\* sphere::hit from "rec.t = root": the caller's rec filled in
SphereRecord(s, r, rec, root) ==
    Only({ [set_face_normal([rec EXCEPT !.t = root, !.p = p], r,
                            VDiv(VSub(p, s.center), s.radius))
              EXCEPT !.mat = s.mat] :
           p \in { at(r, root) } })

\* sphere::hit trying the larger root before the smaller one
SphereHit_FarRootFirst(s, r, ray_t, rec) ==
    Only({ IF RLt(q.discriminant, Zero) THEN [hit |-> FALSE, rec |-> rec]
           ELSE Only({ IF surrounds(ray_t, root2)
                       THEN [hit |-> TRUE, rec |-> SphereRecord(s, r, rec, root2)]
                       ELSE IF surrounds(ray_t, root1)
                       THEN [hit |-> TRUE, rec |-> SphereRecord(s, r, rec, root1)]
                       ELSE [hit |-> FALSE, rec |-> rec] :
                       root1 \in { RDiv(RSub(q.h, Sqrt(q.discriminant)), q.a) },
                       root2 \in { RDiv(RAdd(q.h, Sqrt(q.discriminant)), q.a) } }) :
           q \in { SphereQuadratic(s, r) } })

\* sphere::hit storing the root in rec.t before it tests the interval
SphereHit_WritesRoot(s, r, ray_t, rec) ==
    Only({ IF RLt(q.discriminant, Zero) THEN [hit |-> FALSE, rec |-> rec]
           ELSE Only({ IF surrounds(ray_t, root1)
                       THEN [hit |-> TRUE, rec |-> SphereRecord(s, r, rec, root1)]
                       ELSE IF surrounds(ray_t, root2)
                       THEN [hit |-> TRUE, rec |-> SphereRecord(s, r, rec, root2)]
                       ELSE [hit |-> FALSE, rec |-> [rec EXCEPT !.t = root2]] :
                       root1 \in { RDiv(RSub(q.h, Sqrt(q.discriminant)), q.a) },
                       root2 \in { RDiv(RAdd(q.h, Sqrt(q.discriminant)), q.a) } }) :
           q \in { SphereQuadratic(s, r) } })

\* sphere::hit: the value returned and the caller's rec after the call
SphereHit(s, r, ray_t, rec) ==
    Only({ IF RLt(q.discriminant, Zero) THEN [hit |-> FALSE, rec |-> rec]
           ELSE Only({ IF surrounds(ray_t, root1)
                       THEN [hit |-> TRUE, rec |-> SphereRecord(s, r, rec, root1)]
                       ELSE IF surrounds(ray_t, root2)
                       THEN [hit |-> TRUE, rec |-> SphereRecord(s, r, rec, root2)]
                       ELSE [hit |-> FALSE, rec |-> rec] :
                       root1 \in { RDiv(RSub(q.h, Sqrt(q.discriminant)), q.a) },
                       root2 \in { RDiv(RAdd(q.h, Sqrt(q.discriminant)), q.a) } }) :
           q \in { SphereQuadratic(s, r) } })

(***************************************************************************)
(* hittable_list                                                           *)
(***************************************************************************)
\* the locals of hittable_list::hit before the loop, with the caller's rec
ListHitEnter(ray_t, rec) ==
    [temp_rec |-> EmptyRecord, hit_anything |-> FALSE,
     closest_so_far |-> ray_t.max, rec |-> rec]

\* the member asked about the whole of ray_t
MemberHit_WholeInterval(st, object, r, ray_t) ==
    SphereHit(object, r, ray_t, st.temp_rec)

\* the call object->hit(r, interval(ray_t.min, closest_so_far), temp_rec)
MemberHit(st, object, r, ray_t) ==
    SphereHit(object, r, Interval(ray_t.min, st.closest_so_far), st.temp_rec)

\* the loop body without "closest_so_far = temp_rec.t"
ListHitApply_NoNarrow(st, res) ==
    IF res.hit
    THEN [temp_rec |-> res.rec, hit_anything |-> TRUE,
          closest_so_far |-> st.closest_so_far, rec |-> res.rec]
    ELSE [st EXCEPT !.temp_rec = res.rec]

\* the loop body, given the member's answer res
ListHitApply(st, res) ==
    IF res.hit
    THEN [temp_rec |-> res.rec, hit_anything |-> TRUE,
          closest_so_far |-> res.rec.t, rec |-> res.rec]
    ELSE [st EXCEPT !.temp_rec = res.rec]

\* one iteration of the loop over objects
ListHitStep(st, object, r, ray_t) ==
    Only({ ListHitApply(st, res) : res \in { MemberHit(st, object, r, ray_t) } })

RECURSIVE ListHitLoop(_, _, _, _)
ListHitLoop(st, objs, r, ray_t) ==
    IF objs = <<>> THEN st
    ELSE Only({ ListHitLoop(nxt, Tail(objs), r, ray_t) :
                nxt \in { ListHitStep(st, Head(objs), r, ray_t) } })

\* hittable_list::hit: the value returned and the caller's rec after the call
ListHit(objs, r, ray_t, rec) ==
    Only({ [hit |-> st.hit_anything, rec |-> st.rec] :
           st \in { ListHitLoop(ListHitEnter(ray_t, rec), objs, r, ray_t) } })

(***************************************************************************)
(* The state                                                               *)
(***************************************************************************)
VARIABLES
    objects,          \* hittable_list::objects, the scene's member list
    added,            \* the objects passed to add since the last clear, oldest first
    \* one call of hittable_list::hit
    hpc,              \* "build", "loop" or "done"
    r,                \* the ray of the call
    ray_t,            \* the interval of the call
    idx,              \* position of the loop over objects
    temp_rec,
    hit_anything,
    closest_so_far,
    rec,              \* the caller's record
    member_call,      \* the member call of the last iteration: interval, result
    \* one top-level call of camera::trace_ray and its recursive calls
    tpc,              \* "idle", "call", "return" or "done"
    cur,              \* the arguments r and depth of the innermost call
    stack,            \* the callers waiting on the innermost call, outermost first
    ret,              \* the value the last return statement returned
    top,              \* the arguments of the top-level call
    record,           \* the record of the last scene.hit of trace_ray
    n_hit,            \* scene.hit calls made since the top-level call
    n_scatter,        \* scatter calls made since the top-level call
    draws,            \* the random values consumed for the top-level call, in order
    \* camera::render and the driver
    rpc,              \* position in main and camera::render
    cam,              \* the camera's fields
    row,
    col,
    sample,
    accumulated_color,
    output_file,      \* the stream: is_open, fail and the text written
    written,          \* the (row, col) of each pixel handed to write_color
    n_rays,           \* generate_ray calls made
    traced,           \* what trace_ray returned for each sample of the pixel
    clog,             \* the progress lines sent to std::clog
    exit_status,      \* what main returned
    \* one call of a constructor or of a function without side effects
    fpc,              \* "idle", "call" or "return"
    fn_call,          \* the function called and its arguments
    fn_result         \* what the call returned

sceneVars == <<objects, added>>
hitVars == <<hpc, r, ray_t, idx, temp_rec, hit_anything, closest_so_far, rec,
             member_call>>
traceVars == <<tpc, cur, stack, ret, top, record, n_hit, n_scatter, draws>>
renderVars == <<rpc, cam, row, col, sample, accumulated_color, output_file,
                written, n_rays, traced, clog, exit_status>>
pureVars == <<fpc, fn_call, fn_result>>
vars == <<sceneVars, hitVars, traceVars, renderVars, pureVars>>

(***************************************************************************)
(* Inputs                                                                  *)
(***************************************************************************)
MaxObjects == 2

Gray == <<Half, Half, Half>>

Materials ==
    { BaseMaterial,
      Lambertian(Gray),
      Metal(<<Q(7, 10), Q(3, 5), Half>>, Zero),
      Dielectric(Q(3, 2)) }

\* the unit sphere of the end-to-end scenario, two spheres that coincide
\* but for their material, and a sphere whose radius the constructor clamps
Spheres ==
    { Sphere(V(0, 0, -1), One, Lambertian(Gray)),
      Sphere(V(0, 0, -4), One, Metal(<<Q(7, 10), Q(3, 5), Half>>, Zero)),
      Sphere(V(0, 0, -4), One, Dielectric(Q(3, 2))),
      Sphere(V(0, 0, -1), R(-1), BaseMaterial) }

Rays ==
    { Ray(V(0, 0, 0), V(0, 0, -1)),
      Ray(V(0, 0, 0), V(0, 0, -2)),
      Ray(V(0, 0, -1), V(0, 0, -1)),
      Ray(V(0, 1, 0), V(0, 0, -1)),
      Ray(V(0, 0, 0), V(0, 1, 0)),
      Ray(V(0, 0, 0), V(0, 3, -4)) }

TMin == Q(1, 1000)

Intervals ==
    { Interval(TMin, infinity),
      Interval(Zero, Two),
      Interval(R(-1), One),
      Interval(One, R(4)) }

\* what the caller's record may hold before the call
CallerRecords ==
    { EmptyRecord,
      [p |-> V(1, 1, 1), normal |-> V(0, 1, 0), mat |-> BaseMaterial,
       t |-> R(7), front_face |-> TRUE] }

NoCall == [iv |-> Interval(Zero, Zero), hit |-> FALSE, before |-> EmptyRecord]

NoArgs == [r |-> Ray(VZero, VZero), depth |-> 0]

\* a camera as constructed, before initialize()
Camera(image_width, aspect_ratio, samples_per_pixel, max_depth, lens_aperture, focus_distance) ==
    [aspect_ratio |-> aspect_ratio, image_width |-> image_width,
     samples_per_pixel |-> samples_per_pixel, max_depth |-> max_depth,
     vertical_fov |-> R(90), camera_position |-> V(0, 0, 0),
     focus_point |-> V(0, 0, -1), up_direction |-> V(0, 1, 0),
     lens_aperture |-> lens_aperture, focus_distance |-> focus_distance,
     image_height |-> 0, scale_color |-> Zero,
     upper_left_pixel |-> VZero, horizontal_pixel_step |-> VZero,
     vertical_pixel_step |-> VZero, camera_basis_u |-> VZero,
     camera_basis_v |-> VZero, camera_basis_w |-> VZero,
     aperture_disk_u |-> VZero, aperture_disk_v |-> VZero]

\* no output_file yet
NoStream == [is_open |-> FALSE, fail |-> FALSE, text |-> <<>>]

(***************************************************************************)
(* Scene construction and hittable_list::hit, one loop iteration a step    *)
(***************************************************************************)
HitIdle ==
    /\ hpc = "build"
    /\ r = Ray(VZero, VZero)
    /\ ray_t = Interval(Zero, Zero)
    /\ idx = 0
    /\ temp_rec = EmptyRecord
    /\ hit_anything = FALSE
    /\ closest_so_far = Zero
    /\ rec = EmptyRecord
    /\ member_call = NoCall

TraceIdle ==
    /\ tpc = "idle"
    /\ cur = NoArgs
    /\ stack = <<>>
    /\ ret = VZero
    /\ top = NoArgs
    /\ record = EmptyRecord
    /\ n_hit = 0
    /\ n_scatter = 0
    /\ draws = <<>>

RenderIdle ==
    /\ rpc = "idle"
    /\ cam = Camera(1, One, 1, 0, Zero, One)
    /\ row = 0
    /\ col = 0
    /\ sample = 0
    /\ accumulated_color = VZero
    /\ output_file = NoStream
    /\ written = <<>>
    /\ n_rays = 0
    /\ traced = <<>>
    /\ clog = <<>>
    /\ exit_status = -1

\* hittable_list() and hittable_list(object)
PureIdle ==
    /\ fpc = "idle"
    /\ fn_call = [fn |-> "none", args |-> <<>>]
    /\ fn_result = [fn |-> "none", value |-> <<>>]

InitHit ==
    /\ objects \in {<<>>} \cup {<<s>> : s \in Spheres}
    /\ added = objects
    /\ HitIdle
    /\ TraceIdle
    /\ RenderIdle
    /\ PureIdle

\* an add that skips an object the list already holds
add_Unique(object) ==
    /\ hpc = "build"
    /\ Len(objects) < MaxObjects
    /\ objects' = IF \E i \in 1 .. Len(objects) : objects[i] = object
                  THEN objects ELSE Append(objects, object)
    /\ added' = Append(added, object)
    /\ UNCHANGED <<pureVars, hitVars, traceVars, renderVars>>

add(object) ==
    /\ hpc = "build"
    /\ Len(objects) < MaxObjects
    /\ objects' = Append(objects, object)
    /\ added' = Append(added, object)
    /\ UNCHANGED <<pureVars, hitVars, traceVars, renderVars>>

clear ==
    /\ hpc = "build"
    /\ objects' = <<>>
    /\ added' = <<>>
    /\ UNCHANGED <<pureVars, hitVars, traceVars, renderVars>>

HitCall(ray, iv, caller_rec) ==
    /\ hpc = "build"
    /\ hpc' = "loop"
    /\ r' = ray
    /\ ray_t' = iv
    /\ idx' = 1
    /\ temp_rec' = ListHitEnter(iv, caller_rec).temp_rec
    /\ hit_anything' = ListHitEnter(iv, caller_rec).hit_anything
    /\ closest_so_far' = ListHitEnter(iv, caller_rec).closest_so_far
    /\ rec' = ListHitEnter(iv, caller_rec).rec
    /\ UNCHANGED <<sceneVars, pureVars, member_call, traceVars, renderVars>>

HitIterate ==
    /\ hpc = "loop"
    /\ idx <= Len(objects)
    /\ \E st \in { [temp_rec |-> temp_rec, hit_anything |-> hit_anything,
                     closest_so_far |-> closest_so_far, rec |-> rec] } :
       \E res \in { MemberHit(st, objects[idx], r, ray_t) } :
       \E nxt \in { ListHitApply(st, res) } :
          /\ temp_rec' = nxt.temp_rec
          /\ hit_anything' = nxt.hit_anything
          /\ closest_so_far' = nxt.closest_so_far
          /\ rec' = nxt.rec
          /\ member_call' = [iv |-> Interval(ray_t.min, closest_so_far),
                             hit |-> res.hit, before |-> temp_rec]
    /\ idx' = idx + 1
    /\ UNCHANGED <<sceneVars, pureVars, hpc, r, ray_t, traceVars, renderVars>>

HitReturn ==
    /\ hpc = "loop"
    /\ idx > Len(objects)
    /\ hpc' = "done"
    /\ UNCHANGED <<sceneVars, pureVars, r, ray_t, idx, temp_rec, hit_anything,
                   closest_so_far, rec, member_call, traceVars, renderVars>>

NextHit ==
    \/ \E s \in Spheres : add(s)
    \/ clear
    \/ \E ray \in Rays, iv \in Intervals, caller_rec \in CallerRecords :
          HitCall(ray, iv, caller_rec)
    \/ HitIterate
    \/ HitReturn

SpecHit == InitHit /\ [][NextHit]_vars

(***************************************************************************)
(* Properties of sphere::hit and hittable_list::hit                        *)
(***************************************************************************)
RMinOf(S) == CHOOSE x \in S : \A y \in S : RLe(x, y)

\* |ray.at(t) - s.center| = s.radius, for a radius >= 0
OnSphere(s, ray, t) ==
    length_squared(VSub(at(ray, t), s.center)) = RMul(s.radius, s.radius)

\* candidate parameters: the multiples of 1/d up to GridMax, d a grid
\* denominator; every root of the rays and spheres above is one of them
GridMax == 6

GridDens == {1, 2, 25}

TGrid ==
    UNION { { Q(k, d) : k \in (-GridMax * d) .. (GridMax * d) } : d \in GridDens }

\* the candidates strictly inside iv at which the ray meets the sphere
RootsIn(s, ray, iv) ==
    { t \in TGrid : surrounds(iv, t) /\ OnSphere(s, ray, t) }

\* what each member reports when asked alone about the original interval
MemberAlone(i) == SphereHit(objects[i], r, ray_t, EmptyRecord)

MembersHit == { i \in 1 .. Len(objects) : MemberAlone(i).hit }

PermutationsOf(seq) ==
    { [i \in 1 .. Len(seq) |-> seq[f[i]]] : f \in Permutations(1 .. Len(seq)) }

\* C1: hittable_list.hit returns true exactly when some member reports a hit
\* in the interval; the t returned is the least t any member would report for
\* the original interval, and is the same for every permutation of the
\* member list; an empty list reports no hit.
C1_ListHitNearest ==
    hpc = "done" =>
        /\ hit_anything = (MembersHit # {})
        /\ hit_anything =>
              rec.t = RMinOf({ MemberAlone(i).rec.t : i \in MembersHit })
        /\ \A perm \in PermutationsOf(objects) :
              \E res \in { ListHit(perm, r, ray_t, EmptyRecord) } :
                 /\ res.hit = hit_anything
                 /\ res.hit => res.rec.t = rec.t
        /\ objects = <<>> => ~hit_anything

\* a finished scan in which a member added later is nearer than one added
\* before it, both hitting
C1_Witness ==
    /\ hpc = "done"
    /\ hit_anything
    /\ \E i, j \in MembersHit :
          i < j /\ RLt(MemberAlone(j).rec.t, MemberAlone(i).rec.t)

\* the member asked in the last iteration
LastMember == objects[idx - 1]

\* C5: for a sphere of radius > 0 and a ray of nonzero direction, sphere::hit
\* returns true with the smallest t strictly inside the interval at which the
\* ray meets the sphere when there is such a t, and false when there is none.
C5_SphereHitSmallestRoot ==
    (hpc = "loop" /\ idx >= 2 /\ RGt(LastMember.radius, Zero)
                  /\ r.dir # VZero) =>
        \E roots \in { RootsIn(LastMember, r, member_call.iv) } :
           /\ member_call.hit = (roots # {})
           /\ member_call.hit => temp_rec.t = RMinOf(roots)

\* a member call whose interval holds both roots of the sphere
C5_Witness ==
    /\ hpc = "loop"
    /\ idx >= 2
    /\ RGt(LastMember.radius, Zero)
    /\ member_call.hit
    /\ Cardinality(RootsIn(LastMember, r, member_call.iv)) = 2

\* the outward normal sphere::hit computes for the record rc of a hit on s
OutwardNormal(s, rc) == VDiv(VSub(rc.p, s.center), s.radius)

FaceNormalAgainstRay(s, rc) ==
    \E outward_normal \in { OutwardNormal(s, rc) } :
       /\ RLe(dot(rc.normal, r.dir), Zero)
       /\ rc.front_face = RLt(dot(r.dir, outward_normal), Zero)
       /\ rc.normal = IF rc.front_face THEN outward_normal
                      ELSE VNeg(outward_normal)

\* C6: after every successful hit, of a sphere or of the list, the record's
\* normal has dot(normal, r.direction) <= 0, front_face is true exactly when
\* dot(r.direction, outward_normal) < 0, and the normal is the outward normal
\* on the front face and its negation otherwise.
C6_NormalAgainstRay ==
    /\ (hpc = "loop" /\ idx >= 2 /\ member_call.hit) =>
           FaceNormalAgainstRay(LastMember, temp_rec)
    /\ (hpc = "done" /\ hit_anything) => RLe(dot(rec.normal, r.dir), Zero)

\* the same on the spheres of radius > 0: the record of a hit on a sphere of
\* radius 0 holds the normal (p - center) / 0
C6_PositiveRadius ==
    /\ (hpc = "loop" /\ idx >= 2 /\ member_call.hit
                     /\ RGt(LastMember.radius, Zero)) =>
           FaceNormalAgainstRay(LastMember, temp_rec)
    /\ (hpc = "done" /\ hit_anything
                     /\ \A i \in 1 .. Len(objects) :
                           RGt(objects[i].radius, Zero)) =>
           RLe(dot(rec.normal, r.dir), Zero)

\* every discriminant met in this specification has a rational root, and
\* every root is a candidate of TGrid
ExactRoots ==
    \A i \in 1 .. Len(objects) :
       \E oc \in { VSub(objects[i].center, r.orig) } :
       \E a \in { length_squared(r.dir) } :
       \E h \in { dot(r.dir, oc) } :
       \E d \in { RSub(RMul(h, h),
                       RMul(a, RSub(length_squared(oc),
                                    RMul(objects[i].radius,
                                         objects[i].radius)))) } :
          \/ hpc = "build"
          \/ RLt(d, Zero)
          \/ /\ IsSquare(d[1]) /\ IsSquare(d[2])
             /\ RDiv(RSub(h, Sqrt(d)), a) \in TGrid
             /\ RDiv(RAdd(h, Sqrt(d)), a) \in TGrid


\* C11: after any sequence of add and clear, from either constructor, the
\* member sequence is exactly the objects added since the last clear (or
\* since construction), in the order added, duplicates kept; add keeps the
\* members it finds, in place, and clear leaves the list empty.
C11_MembersAreAdded ==
    /\ [](objects = added)
    /\ [][ \/ objects' = <<>>
           \/ /\ Len(objects') = Len(objects) + 1
              /\ SubSeq(objects', 1, Len(objects)) = objects ]_objects

\* a list that holds the same object twice
C11_Witness ==
    /\ Len(objects) = 2
    /\ objects[1] = objects[2]
    /\ added = objects
    /\ hpc = "build"

(***************************************************************************)
(* camera::trace_ray: a step is one execution of the body up to its return *)
(* or its recursive call, or the return of a recursive call to its caller  *)
(***************************************************************************)
MaxDepth == 3

\* "if (depth < 0)"
DepthExhausted_Negative(depth) == depth < 0

\* "if (depth <= 0)"
DepthExhausted(depth) == depth <= 0

\* a recursive call that passes depth on unchanged
NextDepth_Same(depth) == depth

\* the depth argument of the recursive call
NextDepth(depth) == depth - 1

\* interval::universe in place of interval(0.001, infinity)
TraceInterval_Universe == Interval(RNeg(infinity), infinity)

\* the interval of the scene query
TraceInterval == Interval(TMin, infinity)

\* scene.hit(r, interval(0.001, infinity), record) with "hit_record record = {}"
SceneHit(ray) == ListHit(objects, ray, TraceInterval, EmptyRecord)

\* the gradient taken on r.direction() itself, not on its unit vector
Background_Unnormalised(ray) ==
    Only({ VAdd(VScale(RSub(One, t), V(1, 1, 1)),
                VScale(t, <<Half, Q(7, 10), One>>)) :
           t \in { RMul(Half, RAdd(ray.dir[2], One)) } })

\* the background gradient of a ray that hits nothing
Background(ray) ==
    Only({ VAdd(VScale(RSub(One, t), V(1, 1, 1)),
                VScale(t, <<Half, Q(7, 10), One>>)) :
           t \in { RMul(Half, RAdd(unit_vector(ray.dir)[2], One)) } })

TraceSpheres ==
    Spheres \cup { Sphere(V(0, 0, -4), One, Metal(Gray, Two)) }

\* the empty scene, every scene of one sphere, and two scenes of two
TraceScenes ==
    {<<>>} \cup { <<s>> : s \in TraceSpheres }
           \cup { <<Sphere(V(0, 0, -1), One, Lambertian(Gray)),
                     Sphere(V(0, 0, -4), One, Metal(Gray, Two))>>,
                   <<Sphere(V(0, 0, -4), One, Dielectric(Q(3, 2))),
                     Sphere(V(0, 0, -1), One, Lambertian(Gray))>> }

TraceRays ==
    { Ray(V(0, 0, 0), V(0, 0, -1)),
      Ray(V(0, 0, 0), V(0, 1, 0)),
      Ray(V(0, 0, -4), V(0, 0, -1)),
      Ray(V(0, 0, 0), V(0, 3, -4)),
      Ray(<<Zero, Zero, Q(-5, 2)>>, V(0, 0, -1)) }

\* the top-level call trace_ray(ray, depth, scene)
TraceCall(ray, depth) ==
    /\ tpc = "call"
    /\ cur = [r |-> ray, depth |-> depth]
    /\ stack = <<>>
    /\ ret = VZero
    /\ top = [r |-> ray, depth |-> depth]
    /\ record = EmptyRecord
    /\ n_hit = 0
    /\ n_scatter = 0
    /\ draws = <<>>

InitTrace ==
    /\ objects \in TraceScenes
    /\ added = objects
    /\ \E ray \in TraceRays, depth \in 0 .. MaxDepth : TraceCall(ray, depth)
    /\ HitIdle
    /\ RenderIdle
    /\ PureIdle

\* "if (depth <= 0) return color(0, 0, 0);"
TraceDepthZero ==
    /\ tpc = "call"
    /\ DepthExhausted(cur.depth)
    /\ ret' = VZero
    /\ tpc' = "return"
    /\ UNCHANGED <<cur, stack, top, record, n_hit, n_scatter, draws>>
    /\ UNCHANGED <<sceneVars, pureVars, hitVars, renderVars>>

\* the scene reports no hit: the background
TraceMiss ==
    /\ tpc = "call"
    /\ ~DepthExhausted(cur.depth)
    /\ \E res \in { SceneHit(cur.r) } :
          /\ ~res.hit
          /\ record' = res.rec
    /\ ret' = Background(cur.r)
    /\ n_hit' = n_hit + 1
    /\ tpc' = "return"
    /\ UNCHANGED <<cur, stack, top, n_scatter, draws>>
    /\ UNCHANGED <<sceneVars, pureVars, hitVars, renderVars>>

\* a rejected scatter whose attenuation is returned instead of black
TraceAbsorb_Attenuated ==
    /\ tpc = "call"
    /\ ~DepthExhausted(cur.depth)
    /\ \E res \in { SceneHit(cur.r) } :
          /\ res.hit
          /\ record' = res.rec
          /\ \E unit \in random_unit_vector, x \in RandomDoubles :
             \E sc \in { scatter(res.rec.mat, cur.r, res.rec, unit, x) } :
                /\ ~sc.scatter
                /\ ret' = sc.attenuation
                /\ draws' = draws \o ScatterDraws(res.rec.mat, cur.r, res.rec, unit, x)
    /\ n_hit' = n_hit + 1
    /\ n_scatter' = n_scatter + 1
    /\ tpc' = "return"
    /\ UNCHANGED <<cur, stack, top>>
    /\ UNCHANGED <<sceneVars, pureVars, hitVars, renderVars>>

\* a hit whose material does not scatter: black
TraceAbsorb ==
    /\ tpc = "call"
    /\ ~DepthExhausted(cur.depth)
    /\ \E res \in { SceneHit(cur.r) } :
          /\ res.hit
          /\ record' = res.rec
          /\ \E unit \in random_unit_vector, x \in RandomDoubles :
             \E sc \in { scatter(res.rec.mat, cur.r, res.rec, unit, x) } :
                /\ ~sc.scatter
                /\ draws' = draws \o ScatterDraws(res.rec.mat, cur.r, res.rec, unit, x)
    /\ ret' = VZero
    /\ n_hit' = n_hit + 1
    /\ n_scatter' = n_scatter + 1
    /\ tpc' = "return"
    /\ UNCHANGED <<cur, stack, top>>
    /\ UNCHANGED <<sceneVars, pureVars, hitVars, renderVars>>

\* a recursive call that counts its depth down on the camera's max_depth
TraceScatter_CountsOnCamera ==
    /\ tpc = "call"
    /\ ~DepthExhausted(cur.depth)
    /\ \E res \in { SceneHit(cur.r) } :
          /\ res.hit
          /\ record' = res.rec
          /\ \E unit \in random_unit_vector, x \in RandomDoubles :
             \E sc \in { scatter(res.rec.mat, cur.r, res.rec, unit, x) } :
                /\ sc.scatter
                /\ draws' = draws \o ScatterDraws(res.rec.mat, cur.r, res.rec, unit, x)
                /\ stack' = Append(stack, [r |-> cur.r, depth |-> cur.depth,
                                           attenuation |-> sc.attenuation])
                /\ cur' = [r |-> sc.scattered, depth |-> NextDepth(cur.depth)]
    /\ n_hit' = n_hit + 1
    /\ n_scatter' = n_scatter + 1
    /\ UNCHANGED <<tpc, ret, top>>
    /\ cam' = [cam EXCEPT !.max_depth = cam.max_depth - 1]
    /\ UNCHANGED <<rpc, row, col, sample, accumulated_color, output_file,
                   written, n_rays, traced, clog, exit_status>>
    /\ UNCHANGED <<sceneVars, pureVars, hitVars>>

\* a hit whose material scatters: the recursive call
TraceScatter ==
    /\ tpc = "call"
    /\ ~DepthExhausted(cur.depth)
    /\ \E res \in { SceneHit(cur.r) } :
          /\ res.hit
          /\ record' = res.rec
          /\ \E unit \in random_unit_vector, x \in RandomDoubles :
             \E sc \in { scatter(res.rec.mat, cur.r, res.rec, unit, x) } :
                /\ sc.scatter
                /\ draws' = draws \o ScatterDraws(res.rec.mat, cur.r, res.rec, unit, x)
                /\ stack' = Append(stack, [r |-> cur.r, depth |-> cur.depth,
                                           attenuation |-> sc.attenuation])
                /\ cur' = [r |-> sc.scattered, depth |-> NextDepth(cur.depth)]
    /\ n_hit' = n_hit + 1
    /\ n_scatter' = n_scatter + 1
    /\ UNCHANGED <<tpc, ret, top>>
    /\ UNCHANGED <<sceneVars, pureVars, hitVars, renderVars>>

\* a return that passes the recursive result on without the attenuation
TraceReturn_NoAttenuation ==
    /\ tpc = "return"
    /\ stack # <<>>
    /\ ret' = ret
    /\ cur' = [r |-> stack[Len(stack)].r, depth |-> stack[Len(stack)].depth]
    /\ stack' = SubSeq(stack, 1, Len(stack) - 1)
    /\ UNCHANGED <<tpc, top, record, n_hit, n_scatter, draws>>
    /\ UNCHANGED <<sceneVars, pureVars, hitVars, renderVars>>

\* "return attenuation * trace_ray(scattered, depth - 1, scene);"
TraceReturn ==
    /\ tpc = "return"
    /\ stack # <<>>
    /\ ret' = VMul(stack[Len(stack)].attenuation, ret)
    /\ cur' = [r |-> stack[Len(stack)].r, depth |-> stack[Len(stack)].depth]
    /\ stack' = SubSeq(stack, 1, Len(stack) - 1)
    /\ UNCHANGED <<tpc, top, record, n_hit, n_scatter, draws>>
    /\ UNCHANGED <<sceneVars, pureVars, hitVars, renderVars>>

\* the top-level call returns to its caller
TraceDone ==
    /\ tpc = "return"
    /\ stack = <<>>
    /\ tpc' = "done"
    /\ UNCHANGED <<cur, stack, ret, top, record, n_hit, n_scatter, draws>>
    /\ UNCHANGED <<sceneVars, pureVars, hitVars, renderVars>>

NextTrace ==
    \/ TraceDepthZero
    \/ TraceScatter
    \/ TraceAbsorb
    \/ TraceMiss
    \/ TraceReturn
    \/ TraceDone

\* a call that can take a step does take one
SpecTrace == InitTrace /\ [][NextTrace]_vars /\ WF_vars(NextTrace)

(***************************************************************************)
(* Properties of camera::trace_ray                                         *)
(***************************************************************************)
\* every call on the stack was made with a depth one less than its caller's,
\* and the top-level call has made at most top.depth scene queries and at
\* most top.depth scatter calls
DepthCounter ==
    /\ n_hit <= top.depth
    /\ n_scatter <= top.depth
    /\ stack # <<>> =>
          /\ stack[1].depth = top.depth
          /\ cur.depth = stack[Len(stack)].depth - 1
    /\ \A i \in 1 .. Len(stack) - 1 : stack[i + 1].depth = stack[i].depth - 1
    /\ stack = <<>> => cur.depth = top.depth

C3_DepthZeroBlack ==
    (top.depth = 0 /\ tpc \in {"return", "done"}) =>
        /\ ret = VZero
        /\ n_hit = 0
        /\ n_scatter = 0
        /\ record = EmptyRecord
        /\ stack = <<>>

\* a depth-0 call that returned, on a ray the scene would have reported a hit for
C3_Witness ==
    /\ top.depth = 0
    /\ tpc = "done"
    /\ SceneHit(top.r).hit

\* one sphere of radius 1 centred at (0,0,-1), the ray from the origin down
\* -z, and the first scene query of trace_ray made
AxisScenario ==
    /\ Len(objects) = 1
    /\ objects[1].center = V(0, 0, -1)
    /\ objects[1].radius = One
    /\ top.r = Ray(V(0, 0, 0), V(0, 0, -1))
    /\ n_hit = 1

\* C7 as claimed: in that scenario the query reports a hit with t = 1 and
\* normal (0,0,1), the root t = 0 being excluded.
C7_AxisHitAtOne ==
    AxisScenario =>
        /\ n_scatter = 1
        /\ record.t = One
        /\ record.normal = V(0, 0, 1)

\* C7: in that scenario the query reports a hit with t = 2 and normal (0,0,1):
\* the origin lies on the sphere, the root t = 0 is excluded and the hit is
\* the far side of the sphere, seen from inside.
C7_AxisHitAtTwo ==
    AxisScenario =>
        /\ n_scatter = 1
        /\ record.t = Two
        /\ record.t # Zero
        /\ record.p = V(0, 0, -2)
        /\ record.normal = V(0, 0, 1)
        /\ ~record.front_face

\* the scenario with max_depth = 1, returned
C7_Witness ==
    /\ AxisScenario
    /\ top.depth = 1
    /\ tpc = "done"

\* (1 - t) (1,1,1) + t (0.5,0.7,1.0) with t = 0.5 (y + 1)
Gradient(y) ==
    <<RAdd(RSub(One, RMul(Half, RAdd(y, One))),
           RMul(RMul(Half, RAdd(y, One)), Half)),
      RAdd(RSub(One, RMul(Half, RAdd(y, One))),
           RMul(RMul(Half, RAdd(y, One)), Q(7, 10))),
      RAdd(RSub(One, RMul(Half, RAdd(y, One))),
           RMul(Half, RAdd(y, One)))>>

\* the innermost call has returned from a scene query that reported no hit
ReturnedFromMiss ==
    /\ tpc \in {"return", "done"}
    /\ cur.depth > 0
    /\ ~SceneHit(cur.r).hit

\* C8: in an empty scene with depth >= 1 the ray from the origin with
\* direction (0,1,0) returns exactly (0.5, 0.7, 1.0); whenever the scene
\* reports no hit the call returns the gradient of the normalised
\* direction's y, and makes no scatter call.
C8_MissIsBackground ==
    /\ ( /\ objects = <<>>
         /\ top = [r |-> Ray(V(0, 0, 0), V(0, 1, 0)), depth |-> top.depth]
         /\ top.depth >= 1
         /\ tpc = "done" ) =>
            /\ ret = <<Half, Q(7, 10), One>>
            /\ n_hit = 1
            /\ n_scatter = 0
    /\ ReturnedFromMiss =>
            /\ ret = Gradient(unit_vector(cur.r.dir)[2])
            /\ n_scatter = Len(stack)

\* a miss of a ray that is not of unit length, after a bounce
C8_Witness ==
    /\ ReturnedFromMiss
    /\ stack # <<>>
    /\ length_squared(cur.r.dir) # One

(***************************************************************************)
(* camera::render and the driver                                           *)
(***************************************************************************)
MaxWidth == 2
MaxSamples == 2
MaxBounces == 1

\* static_cast<int> and int() of a finite double: truncation towards zero
IntCast(x_) ==
    Only({ (IF x[1] >= 0 THEN x[1] \div x[2] ELSE -((-x[1]) \div x[2]))
         : x \in {x_} })

\* std::tan(degrees_to_radians(degrees)) at the angles the cameras use
TanDegrees(degrees) ==
    IF degrees = Zero THEN Zero
    ELSE IF degrees = R(45) THEN One
    ELSE NaN

\* camera::initialize: the camera with its derived fields set
initialize(cm) ==
    Only({ Only({ Only({
        [cm EXCEPT
           !.image_height = image_height,
           !.scale_color = RDiv(One, R(cm.samples_per_pixel)),
           !.camera_basis_w = w,
           !.camera_basis_u = u,
           !.camera_basis_v = v,
           !.upper_left_pixel =
               VSub(VSub(VSub(cm.camera_position, VScale(cm.focus_distance, w)),
                         VDiv(horizontal_span, Two)),
                    VDiv(vertical_span, Two)),
           !.horizontal_pixel_step = VDiv(horizontal_span, R(cm.image_width)),
           !.vertical_pixel_step = VDiv(vertical_span, R(image_height)),
           !.aperture_disk_u = VScale(aperture_radius, u),
           !.aperture_disk_v = VScale(aperture_radius, v)] :
        v \in { cross(w, u) },
        horizontal_span \in { VScale(RMul(viewport_height, cm.aspect_ratio), u) },
        vertical_span \in { VScale(RNeg(viewport_height), cross(w, u)) } }) :
        u \in { unit_vector(cross(cm.up_direction, w)) } }) :
        image_height \in
            { IF IntCast(RDiv(R(cm.image_width), cm.aspect_ratio)) > 1
              THEN IntCast(RDiv(R(cm.image_width), cm.aspect_ratio)) ELSE 1 },
        viewport_height \in
            { RMul(RMul(Two, TanDegrees(RDiv(cm.vertical_fov, Two))),
                   cm.focus_distance) },
        w \in { unit_vector(VSub(cm.camera_position, cm.focus_point)) },
        aperture_radius \in
            { RMul(cm.focus_distance,
                   TanDegrees(RDiv(cm.lens_aperture, Two))) } })

\* the values sample_unit_square() can return
sample_unit_square ==
    { <<RSub(x, Half), RSub(y, Half), Zero>> :
      x \in RandomDoubles, y \in RandomDoubles }

\* sample_aperture_disk(), random_point being the value of random_in_unit_disk()
sample_aperture_disk(cm, random_point) ==
    VAdd(VAdd(cm.camera_position, VScale(random_point[1], cm.aperture_disk_u)),
         VScale(random_point[2], cm.aperture_disk_v))

\* generate_ray(col, row), pixel_offset being the value of sample_unit_square()
generate_ray(cm, i, j, pixel_offset, random_point) ==
    Only({ Ray(ray_origin, VSub(target_pixel, ray_origin)) :
           target_pixel \in
               { VAdd(VAdd(cm.upper_left_pixel,
                           VScale(RAdd(R(i), pixel_offset[1]),
                                  cm.horizontal_pixel_step)),
                      VScale(RAdd(R(j), pixel_offset[2]),
                             cm.vertical_pixel_step)) },
           ray_origin \in
               { IF RGt(cm.lens_aperture, Zero)
                 THEN sample_aperture_disk(cm, random_point)
                 ELSE cm.camera_position } })

\* the random values one generate_ray call consumes: sample_unit_square()
\* always, random_in_unit_disk() when the lens has an aperture
RayDraws(cm, pixel_offset, random_point) ==
    <<[fn |-> "sample_unit_square", v |-> pixel_offset]>>
      \o (IF RGt(cm.lens_aperture, Zero)
          THEN <<[fn |-> "random_in_unit_disk", v |-> random_point]>>
          ELSE <<>>)

\* whether a second has passed since the last progress line: the clock's
\* answer at the end of a row
ElapsedSeconds == { Zero, One }

\* the end of a row: "Scanlines remaining: " << (image_height - row - 1),
\* at most once per second
LogProgress(log, cm, i, elapsed) ==
    IF RGe(elapsed, One)
    THEN Append(log, [tag |-> "remaining", nums |-> <<cm.image_height - i - 1>>])
    ELSE log

linear_to_gamma(linear_component) ==
    IF RGt(linear_component, Zero) THEN Sqrt(linear_component) ELSE Zero

\* an intensity interval that reaches 1
intensity_ToOne == Interval(Zero, One)

\* "static const interval intensity(0.000, 0.999)"
intensity == Interval(Zero, Q(999, 1000))

\* the line write_color sends to the stream
write_color(pixel_color) ==
    [tag |-> "pixel",
     nums |-> <<IntCast(RMul(R(256), clamp(intensity, linear_to_gamma(pixel_color[1])))),
                IntCast(RMul(R(256), clamp(intensity, linear_to_gamma(pixel_color[2])))),
                IntCast(RMul(R(256), clamp(intensity, linear_to_gamma(pixel_color[3]))))>>]

\* "P3\n" << image_width << ' ' << image_height << "\n255\n"
Header(cm) ==
    <<[tag |-> "P3", nums |-> <<>>],
      [tag |-> "size", nums |-> <<cm.image_width, cm.image_height>>],
      [tag |-> "maxval", nums |-> <<255>>]>>

\* std::ofstream output_file("output/image.ppm"), opened or not
OpenStream(ok) == [is_open |-> ok, fail |-> ~ok, text |-> <<>>]

\* operator<< on the stream: nothing is written once a write has failed
StreamWrite(f, lines, ok) ==
    IF f.fail \/ ~f.is_open \/ ~ok THEN [f EXCEPT !.fail = TRUE]
    ELSE [f EXCEPT !.text = f.text \o lines]

\* render without the test of the stream
AfterOpen_NoCheck(f) == "header"

\* where render goes after "if (!output_file)"
AfterOpen(f) == IF f.fail THEN "aborted" ELSE "header"

\* the loops nested the other way round: rows inside columns
NextPixel_ColumnMajor(cm, i, j) ==
    IF i + 1 < cm.image_height THEN <<i + 1, j>>
    ELSE IF j + 1 < cm.image_width THEN <<0, j + 1>>
    ELSE <<cm.image_height, 0>>

\* the row and column of the pixel after (i, j): the two loops' increments
NextPixel(cm, i, j) ==
    IF j + 1 < cm.image_width THEN <<i, j + 1>> ELSE <<i + 1, 0>>

Cameras ==
    { Camera(image_width, aspect_ratio, samples_per_pixel, max_depth,
             lens_aperture, One) :
      image_width \in 1 .. MaxWidth, aspect_ratio \in {One, Two},
      samples_per_pixel \in 1 .. MaxSamples, max_depth \in 0 .. MaxBounces,
      lens_aperture \in {Zero} }

\* the empty scene, the unit sphere the camera sits on, and a sphere of the
\* base material straight ahead
RenderScenes ==
    { <<>>,
      <<Sphere(V(0, 0, -1), One, Lambertian(Gray))>>,
      <<Sphere(V(0, 0, -4), One, BaseMaterial)>> }

\* main has built the scene and configured the camera
InitRender ==
    /\ objects \in RenderScenes
    /\ added = objects
    /\ HitIdle
    /\ TraceIdle
    /\ rpc = "main"
    /\ cam \in Cameras
    /\ row = 0
    /\ col = 0
    /\ sample = 0
    /\ accumulated_color = VZero
    /\ output_file = NoStream
    /\ written = <<>>
    /\ n_rays = 0
    /\ traced = <<>>
    /\ clog = <<>>
    /\ exit_status = -1
    /\ PureIdle

\* main calls render, which calls initialize()
Initialize ==
    /\ rpc = "main"
    /\ cam' = initialize(cam)
    /\ rpc' = "open"
    /\ UNCHANGED <<row, col, sample, accumulated_color, output_file, written,
                   n_rays, traced, clog, exit_status>>
    /\ UNCHANGED <<sceneVars, pureVars, hitVars, traceVars>>

\* the stream is constructed, and render returns if it did not open
Open ==
    /\ rpc = "open"
    /\ \E ok \in BOOLEAN :
          /\ output_file' = OpenStream(ok)
          /\ rpc' = AfterOpen(OpenStream(ok))
    /\ UNCHANGED <<cam, row, col, sample, accumulated_color, written, n_rays,
                   traced, clog, exit_status>>
    /\ UNCHANGED <<sceneVars, pureVars, hitVars, traceVars>>

\* the header is written and the row loop entered
WriteHeader ==
    /\ rpc = "header"
    /\ \E ok \in BOOLEAN : output_file' = StreamWrite(output_file, Header(cam), ok)
    /\ row' = 0
    /\ col' = 0
    /\ rpc' = "pixel"
    /\ UNCHANGED <<cam, sample, accumulated_color, written, n_rays, traced, clog, exit_status>>
    /\ UNCHANGED <<sceneVars, pureVars, hitVars, traceVars>>

\* "color accumulated_color(0, 0, 0)" and the start of the sample loop
BeginPixel ==
    /\ rpc = "pixel"
    /\ accumulated_color' = VZero
    /\ sample' = 0
    /\ traced' = <<>>
    /\ rpc' = "sample"
    /\ UNCHANGED <<cam, row, col, output_file, written, n_rays, clog, exit_status>>
    /\ UNCHANGED <<sceneVars, pureVars, hitVars, traceVars>>

\* generate_ray(col, row) and the call trace_ray(pixel_ray, max_depth, scene)
GenerateRay ==
    /\ rpc = "sample"
    /\ sample < cam.samples_per_pixel
    /\ \E pixel_offset \in sample_unit_square,
          random_point \in random_in_unit_disk :
       \E pixel_ray \in { generate_ray(cam, col, row, pixel_offset, random_point) } :
          /\ cur' = [r |-> pixel_ray, depth |-> cam.max_depth]
          /\ top' = [r |-> pixel_ray, depth |-> cam.max_depth]
          /\ draws' = RayDraws(cam, pixel_offset, random_point)
    /\ tpc' = "call"
    /\ stack' = <<>>
    /\ n_hit' = 0
    /\ n_scatter' = 0
    /\ n_rays' = n_rays + 1
    /\ rpc' = "trace"
    /\ UNCHANGED <<ret, record>>
    /\ UNCHANGED <<cam, row, col, sample, accumulated_color, output_file,
                   written, traced, clog, exit_status>>
    /\ UNCHANGED <<sceneVars, pureVars, hitVars>>

\* a sample loop that keeps the last sample only
Accumulate_Overwrite ==
    /\ rpc = "trace"
    /\ tpc = "done"
    /\ accumulated_color' = ret
    /\ sample' = sample + 1
    /\ traced' = Append(traced, ret)
    /\ draws' = <<>>
    /\ tpc' = "idle"
    /\ rpc' = "sample"
    /\ UNCHANGED <<cur, stack, ret, top, record, n_hit, n_scatter>>
    /\ UNCHANGED <<cam, row, col, output_file, written, n_rays, clog, exit_status>>
    /\ UNCHANGED <<sceneVars, pureVars, hitVars>>

\* "accumulated_color += trace_ray(...)" and the sample loop's increment
Accumulate ==
    /\ rpc = "trace"
    /\ tpc = "done"
    /\ accumulated_color' = VAdd(accumulated_color, ret)
    /\ sample' = sample + 1
    /\ traced' = Append(traced, ret)
    /\ draws' = <<>>
    /\ tpc' = "idle"
    /\ rpc' = "sample"
    /\ UNCHANGED <<cur, stack, ret, top, record, n_hit, n_scatter>>
    /\ UNCHANGED <<cam, row, col, output_file, written, n_rays, clog, exit_status>>
    /\ UNCHANGED <<sceneVars, pureVars, hitVars>>

\* a render that sends its progress lines to the image file
WritePixel_LogsToOutput ==
    /\ rpc = "sample"
    /\ sample >= cam.samples_per_pixel
    /\ written' = Append(written, <<row, col>>)
    /\ \E nxt \in { NextPixel(cam, row, col) } :
          /\ row' = nxt[1]
          /\ col' = nxt[2]
          /\ rpc' = IF nxt[1] < cam.image_height THEN "pixel" ELSE "close"
          /\ \E elapsed \in ElapsedSeconds, ok \in BOOLEAN :
                output_file' =
                    StreamWrite(output_file,
                                IF nxt[1] # row
                                THEN LogProgress(<<write_color(VScale(cam.scale_color,
                                                                      accumulated_color))>>,
                                                 cam, row, elapsed)
                                ELSE <<write_color(VScale(cam.scale_color,
                                                          accumulated_color))>>,
                                ok)
          /\ clog' = clog
    /\ UNCHANGED <<cam, sample, accumulated_color, n_rays, traced, exit_status>>
    /\ UNCHANGED <<sceneVars, pureVars, hitVars, traceVars>>

\* write_color(output_file, scale_color * accumulated_color) and the
\* increments of the column and row loops
WritePixel ==
    /\ rpc = "sample"
    /\ sample >= cam.samples_per_pixel
    /\ \E ok \in BOOLEAN :
          output_file' =
              StreamWrite(output_file,
                          <<write_color(VScale(cam.scale_color, accumulated_color))>>,
                          ok)
    /\ written' = Append(written, <<row, col>>)
    /\ \E nxt \in { NextPixel(cam, row, col) } :
          /\ row' = nxt[1]
          /\ col' = nxt[2]
          /\ rpc' = IF nxt[1] < cam.image_height THEN "pixel" ELSE "close"
          /\ \E elapsed \in ElapsedSeconds :
                clog' = IF nxt[1] # row THEN LogProgress(clog, cam, row, elapsed)
                                        ELSE clog
    /\ UNCHANGED <<cam, sample, accumulated_color, n_rays, traced, exit_status>>
    /\ UNCHANGED <<sceneVars, pureVars, hitVars, traceVars>>

\* output_file.close() and the return of render
Close ==
    /\ rpc = "close"
    /\ output_file' = [output_file EXCEPT !.is_open = FALSE]
    /\ rpc' = "returned"
    /\ clog' = Append(clog, [tag |-> "done", nums |-> <<>>])
    /\ UNCHANGED <<cam, row, col, sample, accumulated_color, written, n_rays,
                   traced, exit_status>>
    /\ UNCHANGED <<sceneVars, pureVars, hitVars, traceVars>>

\* "return 0;" of main, after render returned either way
MainReturn ==
    /\ rpc \in {"returned", "aborted"}
    /\ exit_status = -1
    /\ exit_status' = 0
    /\ UNCHANGED <<rpc, cam, row, col, sample, accumulated_color, output_file,
                   written, n_rays, traced, clog>>
    /\ UNCHANGED <<sceneVars, pureVars, hitVars, traceVars>>

NextRender ==
    \/ Initialize
    \/ Open
    \/ WriteHeader
    \/ BeginPixel
    \/ GenerateRay
    \/ NextTrace
    \/ Accumulate
    \/ WritePixel
    \/ Close
    \/ MainReturn

SpecRender == InitRender /\ [][NextRender]_vars

(***************************************************************************)
(* Properties of camera::render and the driver                             *)
(***************************************************************************)
\* the row and column of the k-th pixel of a row-major scan
RowMajor(k) == <<(k - 1) \div cam.image_width, (k - 1) % cam.image_width>>

\* render has returned from its last statement and no stream operation failed
RenderSucceeded == rpc = "returned" /\ ~output_file.fail

\* C4: a successful render writes the three header lines (P3, the width and
\* height, 255) first and then hands exactly image_width * image_height
\* triples to the sink, the k-th being the pixel at row (k-1) div width and
\* column (k-1) mod width; the same order holds of every prefix written.
C4_RowMajorOutput ==
    /\ \A k \in 1 .. Len(written) : written[k] = RowMajor(k)
    /\ (~output_file.fail /\ rpc \notin {"main", "open", "header"}) =>
          /\ Len(output_file.text) = 3 + Len(written)
          /\ output_file.text[1] = [tag |-> "P3", nums |-> <<>>]
          /\ output_file.text[2] =
                [tag |-> "size", nums |-> <<cam.image_width, cam.image_height>>]
          /\ output_file.text[3] = [tag |-> "maxval", nums |-> <<255>>]
          /\ \A k \in 1 .. Len(written) :
                /\ output_file.text[3 + k].tag = "pixel"
                /\ Len(output_file.text[3 + k].nums) = 3
    /\ rpc \in {"main", "open", "header"} => output_file.text = <<>>
    /\ RenderSucceeded => Len(written) = cam.image_width * cam.image_height

\* a successful render of an image of two rows and two columns
C4_Witness ==
    /\ RenderSucceeded
    /\ cam.image_width = 2
    /\ cam.image_height = 2

\* C9: when the output file cannot be opened render returns before any
\* rendering work: no ray generated or traced, no header and no pixel
\* written, no scene query.
C9_OpenFailureAborts ==
    (rpc \notin {"main", "open", "returned"} /\ ~output_file.is_open) =>
        /\ rpc = "aborted"
        /\ n_rays = 0
        /\ output_file.text = <<>>
        /\ written = <<>>
        /\ tpc = "idle"
        /\ n_hit = 0
        /\ n_scatter = 0
        /\ record = EmptyRecord

\* render has returned from a failed open, with a scene it could have rendered
C9_Witness ==
    /\ rpc = "aborted"
    /\ ~output_file.is_open
    /\ objects # <<>>
    /\ cam.max_depth > 0

\* C10 as claimed: when the open or a write of the output failed, the driver's
\* exit status differs from the status of a successful run, which is 0.
C10_FailureSurfaced ==
    (exit_status # -1 /\ output_file.fail) => exit_status # 0

\* C12: from the end of initialize() to the return of render no step changes
\* the camera's configuration or derived state, the scene's member list, a
\* sphere or a material; what changes is the pixel stream (and the locals of
\* render and of the calls it makes).
C12_RenderFrame ==
    [][rpc # "main" => (cam' = cam /\ objects' = objects)]_vars

\* a finished render of a scene whose last ray was scattered by a material
C12_Witness ==
    /\ rpc = "returned"
    /\ objects # <<>>
    /\ n_scatter > 0
    /\ cam.samples_per_pixel = 2
    /\ cam # Camera(cam.image_width, cam.aspect_ratio, cam.samples_per_pixel, cam.max_depth, cam.lens_aperture, cam.focus_distance)

(***************************************************************************)
(* Constructors and functions without side effects, one call at a time:    *)
(* the arguments are drawn at the start, the step applies the function     *)
(***************************************************************************)
\* the fuzz handed to metal::metal: negative, 0, inside (0,1), 1, above 1
FuzzValues == { Q(-1, 2), Zero, Half, One, Two }

\* incoming rays of length 1, 2, 5 and sqrt(2)
ScatterRays ==
    { Ray(VZero, d) : d \in { V(0, 0, -1), V(0, 0, -2), V(3, 0, -4), V(0, -1, -1) } }

\* the unit outward normals of the hit records
ScatterNormals == { V(0, 0, 1), V(0, 1, 0), V(1, 0, 0), V(0, 0, -1) }

ScatterMaterials ==
    { BaseMaterial, Lambertian(Gray), Dielectric(Q(3, 2)) }
      \cup { Metal(Gray, fuzz) : fuzz \in FuzzValues }

\* the record sphere::hit hands to scatter: set_face_normal has oriented
\* the normal against the ray
ScatterRecord(mat, r_in, outward_normal) ==
    set_face_normal([EmptyRecord EXCEPT !.p = V(0, 0, -1), !.t = One, !.mat = mat],
                    r_in, outward_normal)

\* linear channel values: negative, 0, inside (0,1), 1, above 1
Channels ==
    { R(-1), Q(-1, 4), Zero, Q(1, 16), Q(1, 4), Q(9, 16), Q(998001, 1000000), One, R(4) }

PureCalls ==
    { [fn |-> "metal", args |-> [albedo |-> Gray, fuzz |-> fuzz]] :
        fuzz \in FuzzValues }
    \cup
    { [fn |-> "scatter",
       args |-> [mat |-> mat, r_in |-> r_in,
                 rec |-> ScatterRecord(mat, r_in, n), unit |-> unit, x |-> x]] :
        mat \in ScatterMaterials, r_in \in ScatterRays, n \in ScatterNormals,
        unit \in random_unit_vector, x \in RandomDoubles }
    \cup
    { [fn |-> "write_color", args |-> pixel_color] :
        pixel_color \in Channels \X Channels \X Channels }

InitPure ==
    /\ objects = <<>>
    /\ added = objects
    /\ HitIdle
    /\ TraceIdle
    /\ RenderIdle
    /\ fpc = "call"
    /\ fn_call \in PureCalls
    /\ fn_result = [fn |-> "none", value |-> <<>>]

\* metal::metal(albedo, fuzz)
MetalNew ==
    /\ fpc = "call"
    /\ fn_call.fn = "metal"
    /\ fn_result' = [fn |-> "metal",
                     value |-> Metal(fn_call.args.albedo, fn_call.args.fuzz)]
    /\ fpc' = "return"
    /\ UNCHANGED <<fn_call, sceneVars, hitVars, traceVars, renderVars>>

\* mat->scatter(r_in, rec, attenuation, scattered)
Scatter ==
    /\ fpc = "call"
    /\ fn_call.fn = "scatter"
    /\ fn_result' = [fn |-> "scatter",
                     value |-> scatter(fn_call.args.mat, fn_call.args.r_in,
                                       fn_call.args.rec, fn_call.args.unit,
                                       fn_call.args.x)]
    /\ fpc' = "return"
    /\ UNCHANGED <<fn_call, sceneVars, hitVars, traceVars, renderVars>>

\* write_color(out, pixel_color)
WriteColor ==
    /\ fpc = "call"
    /\ fn_call.fn = "write_color"
    /\ fn_result' = [fn |-> "write_color", value |-> write_color(fn_call.args)]
    /\ fpc' = "return"
    /\ UNCHANGED <<fn_call, sceneVars, hitVars, traceVars, renderVars>>

NextPure == MetalNew \/ Scatter \/ WriteColor

SpecPure == InitPure /\ [][NextPure]_vars

(***************************************************************************)
(* Properties of the constructors and functions                            *)
(***************************************************************************)
\* C14: whatever fuzz the metal constructor is given, the fuzz it stores
\* lies in [0,1]; a fuzz above 1 is stored as 1 and a fuzz below 0 as 0
C14_FuzzInUnitInterval ==
    (fpc = "return" /\ fn_call.fn = "metal") =>
        /\ RLe(Zero, fn_result.value.fuzz)
        /\ RLe(fn_result.value.fuzz, One)
        /\ RGt(fn_call.args.fuzz, One) => fn_result.value.fuzz = One
        /\ RLt(fn_call.args.fuzz, Zero) => fn_result.value.fuzz = Zero

\* what the constructor does: the fuzz is bounded above by 1 and a fuzz
\* below 1, negative or not, is stored unchanged
C14_FuzzAtMostOne ==
    (fpc = "return" /\ fn_call.fn = "metal") =>
        /\ RLe(fn_result.value.fuzz, One)
        /\ RGt(fn_call.args.fuzz, One) => fn_result.value.fuzz = One
        /\ RLt(fn_call.args.fuzz, One) => fn_result.value.fuzz = fn_call.args.fuzz

\* a metal made with a negative fuzz
C14_NegativeFuzz ==
    fpc = "return" /\ fn_call.fn = "metal" /\ RLt(fn_result.value.fuzz, Zero)

\* a returned call of metal::scatter on a metal whose fuzz is 0
MirrorScattered ==
    /\ fpc = "return"
    /\ fn_call.fn = "scatter"
    /\ fn_call.args.mat.kind = "metal"
    /\ fn_call.args.mat.fuzz = Zero

\* C15 as stated: a metal with fuzz 0 scatters every incoming ray, of any
\* nonzero length, into exactly reflect(incoming.direction, normal),
\* whatever the random draw
C15_MirrorIsReflection ==
    MirrorScattered =>
        fn_result.value.scattered.dir
          = reflect(fn_call.args.r_in.dir, fn_call.args.rec.normal)

\* C15: a metal with fuzz 0 scatters every incoming ray into exactly
\* unit_vector(reflect(incoming.direction, normal)), whatever the random
\* draw; that is reflect(incoming.direction, normal) itself when the
\* incoming direction has length 1
C15_MirrorIsUnitReflection ==
    MirrorScattered =>
        /\ fn_result.value.scattered.dir
             = unit_vector(reflect(fn_call.args.r_in.dir, fn_call.args.rec.normal))
        /\ length(fn_call.args.r_in.dir) = One =>
             fn_result.value.scattered.dir
               = reflect(fn_call.args.r_in.dir, fn_call.args.rec.normal)

\* the mirror hit along the normal by a ray of length 2: the scattered
\* direction has length 1, the reflection has length 2
C15_Witness ==
    /\ MirrorScattered
    /\ fn_call.args.r_in.dir = V(0, 0, -2)
    /\ fn_call.args.rec.normal = V(0, 0, 1)
    /\ fn_call.args.unit = V(0, 1, 0)
    /\ fn_result.value.scattered.dir = V(0, 0, 1)
    /\ reflect(fn_call.args.r_in.dir, fn_call.args.rec.normal) = V(0, 0, 2)

\* the largest integer not above x, for a finite x
Floor(x) == x[1] \div x[2]

\* floor(256 * clamp(g, 0, 0.999)) with g = sqrt(v) if v > 0 and 0 otherwise
ChannelByte(v) ==
    Floor(RMul(R(256), RMax(Zero, RMin(IF RGt(v, Zero) THEN Sqrt(v) ELSE Zero,
                                       Q(999, 1000)))))

\* C16: for every linear channel value v handed to write_color the emitted
\* channel is floor(256 * clamp(g, 0, 0.999)), g = sqrt(v) if v > 0 and 0
\* otherwise; it is an integer in 0..255, 0 for a negative v and 255 for
\* every v >= 1
C16_ChannelBytes ==
    (fpc = "return" /\ fn_call.fn = "write_color") =>
        \A i \in 1 .. 3 :
            /\ fn_result.value.nums[i] = ChannelByte(fn_call.args[i])
            /\ fn_result.value.nums[i] \in 0 .. 255
            /\ RLt(fn_call.args[i], Zero) => fn_result.value.nums[i] = 0
            /\ RGe(fn_call.args[i], One) => fn_result.value.nums[i] = 255

\* one pixel with a negative channel, a channel inside (0,1) and a channel
\* above 1
C16_Witness ==
    /\ fpc = "return"
    /\ fn_call.fn = "write_color"
    /\ fn_call.args = <<R(-1), Q(1, 4), R(4)>>
    /\ fn_result.value.nums = <<0, 128, 255>>

\* a returned call of lambertian::scatter on a record with a unit normal
LambertianScattered ==
    /\ fpc = "return"
    /\ fn_call.fn = "scatter"
    /\ fn_call.args.mat.kind = "lambertian"
    /\ length_squared(fn_call.args.rec.normal) = One

\* C18: on a record with a unit normal lambertian::scatter returns true
\* and its scattered direction is not near-zero: the direction is the
\* normal when normal + random_unit_vector() is near-zero and that sum
\* otherwise
C18_LambertianNotDegenerate ==
    LambertianScattered =>
        /\ fn_result.value.scatter
        /\ ~near_zero(fn_result.value.scattered.dir)
        /\ fn_result.value.scattered.dir
             = IF near_zero(VAdd(fn_call.args.rec.normal, fn_call.args.unit))
               THEN fn_call.args.rec.normal
               ELSE VAdd(fn_call.args.rec.normal, fn_call.args.unit)

\* the draw opposite to the normal: the sum is zero and the normal is used
C18_Witness ==
    /\ LambertianScattered
    /\ fn_call.args.rec.normal = V(0, 0, 1)
    /\ fn_call.args.unit = V(0, 0, -1)
    /\ fn_result.value.scattered.dir = V(0, 0, 1)

(***************************************************************************)
(* Properties of trace_ray that refer to the random values it consumed     *)
(***************************************************************************)
\* the random values the last step consumed
NewDraws == SubSeq(draws', Len(draws) + 1, Len(draws'))

\* the value of kind fn at the head of a tape, or a default when the call
\* draws none
DrawnFrom(tape, fn, default) ==
    IF tape # <<>> /\ tape[1].fn = fn THEN tape[1].v ELSE default

\* scatter as called for the hit res of the ray ray, taking its random
\* values from the head of tape
ScatterWith(res, ray, tape) ==
    scatter(res.rec.mat, ray, res.rec,
            DrawnFrom(tape, "random_unit_vector", VZero),
            DrawnFrom(tape, "random_double", Zero))

\* the step returned black from the current call without another call
Absorbed ==
    /\ tpc' = "return"
    /\ ret' = VZero
    /\ stack' = stack
    /\ cur' = cur
    /\ n_hit' = n_hit + 1

\* C17: when the scene reports a hit and the material's scatter returns
\* false (the base material always, metal when the scattered direction has
\* dot(direction, normal) <= 0), trace_ray returns (0,0,0) for that ray
\* and makes no further recursive call, whatever scatter wrote to
\* attenuation and scattered
C17_AbsorbedIsBlack ==
    [][ (tpc = "call" /\ ~DepthExhausted(cur.depth) /\ SceneHit(cur.r).hit) =>
          \A res \in { SceneHit(cur.r) } :
          \A sc \in { ScatterWith(res, cur.r, NewDraws) } :
             ( \/ ~sc.scatter
               \/ res.rec.mat.kind = "material"
               \/ /\ res.rec.mat.kind = "metal"
                  /\ RLe(dot(sc.scattered.dir, res.rec.normal), Zero) )
             => Absorbed ]_vars

\* a metal that rejected its scattered ray, which it had written with a
\* gray attenuation: the call hit once, called scatter once and returned
\* black with depth to spare
C17_Witness ==
    /\ tpc = "return"
    /\ stack = <<>>
    /\ n_hit = 1
    /\ n_scatter = 1
    /\ cur.depth >= 2
    /\ record.mat.kind = "metal"
    /\ record.mat.albedo = Gray
    /\ Len(draws) = 1
    /\ ~ScatterWith([rec |-> record], cur.r, draws).scatter
    /\ ret = VZero

\* the explicit loop: it carries the current ray, the depth that remains
\* and the accumulated attenuation, and takes its random values from tape;
\* rest is what it leaves of the tape
RECURSIVE TraceLoop(_, _, _, _)
TraceLoop(current_ray, depth_remaining, accumulated_attenuation, tape) ==
    IF depth_remaining <= 0 THEN [color |-> VZero, rest |-> tape]
    ELSE Only({ IF ~res.hit
                THEN [color |-> VMul(accumulated_attenuation, Background(current_ray)),
                      rest |-> tape]
                ELSE Only({ IF ~sc.scatter
                            THEN [color |-> VZero, rest |-> SubSeq(tape, used + 1, Len(tape))]
                            ELSE TraceLoop(sc.scattered, depth_remaining - 1,
                                           VMul(accumulated_attenuation, sc.attenuation),
                                           SubSeq(tape, used + 1, Len(tape))) :
                            sc \in { ScatterWith(res, current_ray, tape) },
                            used \in { Len(ScatterDraws(res.rec.mat, current_ray,
                                                        res.rec, VZero, Zero)) } }) :
                res \in { SceneHit(current_ray) } })

\* C19: the recursive trace_ray(r, d) returns the color of the explicit
\* loop started from (r, d, (1,1,1)): the accumulator is multiplied by the
\* attenuation of each hit that scatters, a miss returns accumulator times
\* background, an absorbing material or an exhausted depth returns (0,0,0)
C19_RecursionIsLoop ==
    tpc = "done" =>
        TraceLoop(top.r, top.depth, V(1, 1, 1), draws)
          = [color |-> ret, rest |-> <<>>]

\* a path of two scatters that then escapes: the product of two gray
\* attenuations and the background
C19_Witness ==
    /\ tpc = "done"
    /\ n_scatter = 2
    /\ n_hit = 3
    /\ record.mat.kind = "null"
    /\ \A i \in 1 .. Len(draws) : draws[i].fn = "random_unit_vector"
    /\ ret # VZero
    /\ \A i \in 1 .. 3 : RLe(ret[i], Q(1, 4))

(***************************************************************************)
(* Properties of render that refer to its samples and its random values    *)
(***************************************************************************)
RECURSIVE SumColors(_)
SumColors(colors) ==
    IF colors = <<>> THEN VZero
    ELSE VAdd(SumColors(SubSeq(colors, 1, Len(colors) - 1)), colors[Len(colors)])

\* the color of one sample, as a function of the scene, the camera, the
\* pixel and the random values on tape, taken in order: the ray is
\* generated from the first, the bounces take the rest
SampleOf(cm, i, j, tape) ==
    Only({ [ray |-> pixel_ray,
            traced |-> TraceLoop(pixel_ray, cm.max_depth, V(1, 1, 1),
                                 SubSeq(tape, Len(RayDraws(cm, VZero, VZero)) + 1,
                                        Len(tape)))] :
           pixel_ray \in
               { generate_ray(cm, i, j,
                              DrawnFrom(tape, "sample_unit_square", VZero),
                              DrawnFrom(Tail(tape), "random_in_unit_disk", VZero)) } })

\* a sample that trace_ray has returned is the sample its random values
\* determine, and it has used them all
SampleFromDraws ==
    (rpc = "trace" /\ tpc = "done") =>
        /\ draws # <<>>
        /\ SampleOf(cam, col, row, draws)
             = [ray |-> top.r, traced |-> [color |-> ret, rest |-> <<>>]]

\* what a step may do to the image file: nothing, open it empty, close
\* it, write the header, write the pixel that the traced samples average
\* to, or fail
OutputStep ==
    \/ output_file'.text = output_file.text
    \/ /\ rpc = "header"
       /\ output_file'.text = output_file.text \o Header(cam)
    \/ /\ rpc = "sample"
       /\ sample >= cam.samples_per_pixel
       /\ output_file'.text =
            Append(output_file.text,
                   write_color(VScale(Q(1, cam.samples_per_pixel), SumColors(traced))))

\* C13: the header and pixels render emits are determined by the scene,
\* the camera configuration and the random values drawn, which are
\* consumed in one order: every sample is the color its draws determine,
\* every pixel is computed from its samples, and neither the clock nor the
\* progress log enters the image
C13_RenderDeterministic ==
    /\ []SampleFromDraws
    /\ [][OutputStep]_output_file
    /\ [][(rpc = "trace" /\ rpc' = "sample") => traced' = Append(traced, ret)]_vars

\* a finished two-by-two render of a scene with a sphere, two samples a
\* pixel, whose progress line was logged after the first row
C13_Witness ==
    /\ rpc = "returned"
    /\ objects # <<>>
    /\ ~output_file.fail
    /\ Len(output_file.text) = 7
    /\ cam.samples_per_pixel = 2
    /\ Len(clog) = 2
    /\ clog[1] = [tag |-> "remaining", nums |-> <<1>>]

\* C20: for every pixel render generates and traces exactly
\* samples_per_pixel rays, each with initial depth max_depth, all of them
\* before the pixel is emitted and none after; the color handed to
\* write_color is 1/samples_per_pixel times the sum of the traced colors;
\* a render makes image_width * image_height * samples_per_pixel top-level
\* calls of trace_ray
C20_SamplesPerPixel ==
    /\ rpc = "trace" =>
          /\ top.depth = cam.max_depth
          /\ sample < cam.samples_per_pixel
          /\ Len(traced) = sample
          /\ n_rays = Len(written) * cam.samples_per_pixel + sample + 1
    /\ rpc = "sample" =>
          /\ sample <= cam.samples_per_pixel
          /\ Len(traced) = sample
          /\ n_rays = Len(written) * cam.samples_per_pixel + sample
    /\ (rpc = "sample" /\ sample >= cam.samples_per_pixel) =>
          VScale(cam.scale_color, accumulated_color)
            = VScale(Q(1, cam.samples_per_pixel), SumColors(traced))
    /\ rpc \in {"pixel", "close", "returned"} =>
          n_rays = Len(written) * cam.samples_per_pixel
    /\ rpc \in {"close", "returned"} =>
          n_rays = cam.image_width * cam.image_height * cam.samples_per_pixel

\* a finished two-by-two render with two samples a pixel: eight rays, and
\* a last pixel whose two samples differ
C20_Witness ==
    /\ rpc = "returned"
    /\ cam.image_width = 2
    /\ cam.image_height = 2
    /\ cam.samples_per_pixel = 2
    /\ n_rays = 8
    /\ Len(traced) = 2
    /\ traced[1] # traced[2]
    /\ traced[1] # VZero

(***************************************************************************)
(* Properties of sphere::hit and hittable_list::hit: bounds, frame, ties   *)
(***************************************************************************)
\* C21: whenever sphere::hit returns true for the interval (tmin, tmax) the
\* recorded t has tmin < t < tmax, a root equal to a bound is not accepted,
\* and the record hittable_list::hit returns is strictly inside its
\* interval too
C21_StrictlyInside ==
    /\ (hpc = "loop" /\ idx >= 2 /\ member_call.hit) =>
          /\ RLt(member_call.iv.min, temp_rec.t)
          /\ RLt(temp_rec.t, member_call.iv.max)
    /\ (hpc = "done" /\ hit_anything) =>
          /\ RLt(ray_t.min, rec.t)
          /\ RLt(rec.t, ray_t.max)

\* a sphere the ray starts on, asked about (0, 2): the root t = 0 is on the
\* lower bound and the hit is at the other root, t = 1
C21_Witness ==
    /\ hpc = "done"
    /\ hit_anything
    /\ ray_t = Interval(Zero, Two)
    /\ r = Ray(V(0, 0, 0), V(0, 0, -2))
    /\ OnSphere(objects[1], r, Zero)
    /\ rec.t = One

\* the caller's record c is what a call that returns false leaves in rec
CallerRecordKept(c) ==
    [](( hpc = "loop" /\ idx = 1 /\ rec = c) =>
          []((hpc = "done" /\ ~hit_anything) => rec = c))

\* C24: when sphere::hit returns false the record it was given is as it
\* was before the call; a member that misses leaves the best record found
\* so far unchanged; when hittable_list::hit returns false the caller's
\* record is as it was before the call
C24_MissWritesNothing ==
    /\ []((hpc = "loop" /\ idx >= 2 /\ ~member_call.hit) =>
             temp_rec = member_call.before)
    /\ [][(hpc = "loop" /\ hpc' = "loop" /\ ~member_call'.hit) =>
             /\ rec' = rec
             /\ temp_rec' = temp_rec
             /\ closest_so_far' = closest_so_far
             /\ hit_anything' = hit_anything]_vars
    /\ \A c \in CallerRecords : CallerRecordKept(c)

\* a scan that found nothing although the ray meets its sphere, outside
\* the interval: the caller's filled record is returned as it was
C24_Witness ==
    /\ hpc = "done"
    /\ ~hit_anything
    /\ Len(objects) = 1
    /\ RGe(SphereQuadratic(objects[1], r).discriminant, Zero)
    /\ rec.t = R(7)
    /\ rec.mat = BaseMaterial
    /\ ~member_call.hit
    /\ temp_rec = EmptyRecord

\* the member added earliest among those that alone report t
FirstAt(t) ==
    CHOOSE i \in MembersHit :
       /\ MemberAlone(i).rec.t = t
       /\ \A j \in MembersHit : MemberAlone(j).rec.t = t => i <= j

\* C25: during the scan closest_so_far never increases and is the t of the
\* record held (the interval's upper bound while none is held); when
\* several members report the smallest t the record returned, material
\* included, is that of the member added earliest
C25_NarrowingKeepsEarliest ==
    /\ [](hpc \in {"loop", "done"} =>
             closest_so_far = IF hit_anything THEN rec.t ELSE ray_t.max)
    /\ [][hpc = "loop" => RLe(closest_so_far', closest_so_far)]_vars
    /\ []((hpc = "done" /\ hit_anything) =>
             rec = MemberAlone(FirstAt(rec.t)).rec)

\* two spheres that coincide but for their material: the scan returns the
\* first one's material, and the second one's when their order is swapped
C25_Witness ==
    /\ hpc = "done"
    /\ hit_anything
    /\ Len(objects) = 2
    /\ MembersHit = {1, 2}
    /\ MemberAlone(1).rec.t = MemberAlone(2).rec.t
    /\ objects[1].mat # objects[2].mat
    /\ rec.mat = objects[1].mat
    /\ \E res \in { ListHit(<<objects[2], objects[1]>>, r, ray_t, EmptyRecord) } :
          /\ res.rec.t = rec.t
          /\ res.rec.mat = objects[2].mat

(***************************************************************************)
(* Properties of dielectric::scatter                                       *)
(***************************************************************************)
\* a returned call of dielectric::scatter
DielectricScattered ==
    /\ fpc = "return"
    /\ fn_call.fn = "scatter"
    /\ fn_call.args.mat.kind = "dielectric"

\* 1/eta on the front face and eta otherwise
RefractionRatio ==
    IF fn_call.args.rec.front_face
    THEN RDiv(One, fn_call.args.mat.refraction_index)
    ELSE fn_call.args.mat.refraction_index

CosTheta ==
    RMin(dot(VNeg(unit_vector(fn_call.args.r_in.dir)), fn_call.args.rec.normal), One)

SinTheta == Sqrt(RSub(One, RMul(CosTheta, CosTheta)))

TotalReflection == RGt(RMul(RefractionRatio, SinTheta), One)

\* Schlick's approximation: r0 + (1 - r0)(1 - cos)^5, r0 = ((1 - ratio)/(1 + ratio))^2
Schlick ==
    LET r0 == RMul(RDiv(RSub(One, RefractionRatio), RAdd(One, RefractionRatio)),
                   RDiv(RSub(One, RefractionRatio), RAdd(One, RefractionRatio)))
        k  == RSub(One, CosTheta)
    IN  RAdd(r0, RMul(RSub(One, r0), RMul(k, RMul(k, RMul(k, RMul(k, k))))))

\* C22: dielectric::scatter returns true with attenuation (1,1,1); with
\* ratio 1/eta on the front face and eta otherwise, the scattered direction
\* is the reflection when ratio * sin(theta) > 1, whatever is drawn;
\* otherwise it is the reflection exactly when the Schlick reflectance
\* exceeds the uniform draw, and the refraction in the remaining cases
C22_DielectricChoice ==
    DielectricScattered =>
        /\ fn_result.value.scatter
        /\ fn_result.value.attenuation = V(1, 1, 1)
        /\ fn_result.value.scattered.orig = fn_call.args.rec.p
        /\ fn_result.value.scattered.dir
             = IF TotalReflection \/ RGt(Schlick, fn_call.args.x)
               THEN reflect(unit_vector(fn_call.args.r_in.dir), fn_call.args.rec.normal)
               ELSE refract(unit_vector(fn_call.args.r_in.dir), fn_call.args.rec.normal,
                            RefractionRatio)

\* a ray leaving the glass at sin(theta) = 4/5: ratio * sin(theta) = 6/5,
\* and the direction is the reflection although the draw exceeds the
\* reflectance
C22_Witness ==
    /\ DielectricScattered
    /\ fn_call.args.r_in.dir = V(3, 0, -4)
    /\ ~fn_call.args.rec.front_face
    /\ RMul(RefractionRatio, SinTheta) = Q(6, 5)
    /\ RLt(Schlick, fn_call.args.x)
    /\ fn_result.value.scattered.dir
         = reflect(unit_vector(fn_call.args.r_in.dir), fn_call.args.rec.normal)
    /\ fn_result.value.scattered.dir
         # refract(unit_vector(fn_call.args.r_in.dir), fn_call.args.rec.normal,
                   RefractionRatio)

(***************************************************************************)
(* The rejection loops of random_unit_vector and random_in_unit_disk, one  *)
(* draw or one test a step; fn_call.args is the local p, fn_result the     *)
(* value the last call returned                                            *)
(***************************************************************************)
Samplers == {"random_unit_vector", "random_in_unit_disk"}

\* the values of p: vec3::random(-1, 1), or
\* vec3(random_double(-1, 1), random_double(-1, 1), 0)
SamplerCandidates(fn) ==
    IF fn = "random_unit_vector" THEN vec3_random(R(-1), One)
    ELSE { <<x, y, Zero>> : x \in random_double(R(-1), One),
                            y \in random_double(R(-1), One) }

\* a unit-vector test that lets the zero vector through
SamplerAccepts_ZeroToo(fn, p) ==
    IF fn = "random_unit_vector" THEN RLe(length_squared(p), One)
    ELSE RLt(length_squared(p), One)

\* "1e-160 < lensq && lensq <= 1.0" and "p.length_squared() < 1"; every
\* squared length of the model above 0 is above 1e-160
SamplerAccepts(fn, p) ==
    IF fn = "random_unit_vector"
    THEN RLt(Zero, length_squared(p)) /\ RLe(length_squared(p), One)
    ELSE RLt(length_squared(p), One)

\* "return p / sqrt(lensq)" and "return p"
SamplerValue(fn, p) ==
    IF fn = "random_unit_vector" THEN VDiv(p, Sqrt(length_squared(p))) ELSE p

InitSample ==
    /\ objects = <<>>
    /\ added = objects
    /\ HitIdle
    /\ TraceIdle
    /\ RenderIdle
    /\ fpc = "call"
    /\ fn_call \in { [fn |-> fn, args |-> VZero] : fn \in Samplers }
    /\ fn_result = [fn |-> "none", value |-> <<>>]

\* the top of "while (true)": p is drawn
SamplerDraw ==
    /\ fpc = "call"
    /\ fn_call.fn \in Samplers
    /\ \E p \in SamplerCandidates(fn_call.fn) :
          fn_call' = [fn_call EXCEPT !.args = p]
    /\ fpc' = "test"
    /\ UNCHANGED <<fn_result, sceneVars, hitVars, traceVars, renderVars>>

\* the test fails: the loop goes round
SamplerReject ==
    /\ fpc = "test"
    /\ ~SamplerAccepts(fn_call.fn, fn_call.args)
    /\ fpc' = "call"
    /\ UNCHANGED <<fn_call, fn_result, sceneVars, hitVars, traceVars, renderVars>>

\* the test holds: the function returns
SamplerReturn ==
    /\ fpc = "test"
    /\ SamplerAccepts(fn_call.fn, fn_call.args)
    /\ fn_result' = [fn |-> fn_call.fn,
                     value |-> SamplerValue(fn_call.fn, fn_call.args)]
    /\ fpc' = "return"
    /\ UNCHANGED <<fn_call, sceneVars, hitVars, traceVars, renderVars>>

\* the caller, holding the value returned, calls a sampler again
SamplerCall ==
    /\ fpc = "return"
    /\ fn_call.fn \in Samplers
    /\ \E fn \in Samplers : fn_call' = [fn |-> fn, args |-> VZero]
    /\ fpc' = "call"
    /\ UNCHANGED <<fn_result, sceneVars, hitVars, traceVars, renderVars>>

NextSample == SamplerDraw \/ SamplerReject \/ SamplerReturn \/ SamplerCall

\* a draw that the test will accept
AcceptableDraw ==
    SamplerDraw /\ SamplerAccepts(fn_call'.fn, fn_call'.args)

\* the loop takes its steps, and a random source that is asked again and
\* again does produce a sample that passes the test
SpecSample ==
    /\ InitSample
    /\ [][NextSample]_vars
    /\ WF_vars(SamplerDraw)
    /\ WF_vars(SamplerReject)
    /\ WF_vars(SamplerReturn)
    /\ SF_vars(AcceptableDraw)

\* what a sampler has just returned is an accepted sample: normalised
\* from a squared length in (0, 1] for random_unit_vector; with z = 0 and
\* a squared length below 1 for random_in_unit_disk
ReturnsAccepted ==
    (fpc = "return" /\ fn_call.fn \in Samplers) =>
        /\ fn_result.fn = fn_call.fn
        /\ fn_call.fn = "random_unit_vector" =>
              /\ RLt(Zero, length_squared(fn_call.args))
              /\ RLe(length_squared(fn_call.args), One)
              /\ fn_result.value
                   = VDiv(fn_call.args, Sqrt(length_squared(fn_call.args)))
              /\ length_squared(fn_result.value) = One
              /\ fn_result.value \in random_unit_vector
        /\ fn_call.fn = "random_in_unit_disk" =>
              /\ fn_result.value = fn_call.args
              /\ fn_result.value[3] = Zero
              /\ RLt(length_squared(fn_result.value), One)
              /\ fn_result.value \in random_in_unit_disk

\* C23: under a fair random source every call of random_unit_vector and of
\* random_in_unit_disk returns; random_unit_vector returns a normalised
\* sample whose squared length was in (1e-160, 1], random_in_unit_disk a
\* point with z = 0 and squared length < 1; a rejected sample is neither
\* normalised nor returned
C23_SamplersReturn ==
    /\ []ReturnsAccepted
    /\ \A fn \in Samplers :
          (fpc = "call" /\ fn_call.fn = fn) ~> (fpc = "return" /\ fn_call.fn = fn)

\* random_unit_vector returning after a sample on the sphere of radius 1,
\* the bound it accepts and random_in_unit_disk rejects
C23_Witness ==
    /\ fpc = "return"
    /\ fn_call.fn = "random_unit_vector"
    /\ length_squared(fn_call.args) = One
    /\ fn_result.value = fn_call.args
    /\ ~SamplerAccepts("random_in_unit_disk", <<fn_call.args[1], fn_call.args[2], Zero>>)

====================================================================
